---- MODULE Spec2Model ----
(***************************************************************************)
(* Pricing and fee engine of zap-service: TokenFeeService (two variants    *)
(* of the class exist in the repository: the CoinMarketCap one in          *)
(* src/src/services/tokenFeeService.ts and the CoinGecko one in            *)
(* src/unnamed/part_003), SpreadFeeService and the HTTP error handler.     *)
(*                                                                         *)
(* Numbers are exact rationals [n, d] (JavaScript doubles without the      *)
(* rounding error), strings are sequences of one-character strings, time   *)
(* is counted in minutes.                                                  *)
(***************************************************************************)
EXTENDS Integers, Sequences, FiniteSets, TLC

(***************************************************************************)
(* Bounds of the model                                                     *)
(***************************************************************************)
MaxMinutes == 5
MaxCacheMinutes == 15
MaxCalls == 2
MaxConcMinutes == 5
MaxRateMinutes == 120

(***************************************************************************)
(* Exact rational arithmetic                                               *)
(***************************************************************************)
RECURSIVE Gcd(_, _)
Gcd(a, b) == IF b = 0 THEN a ELSE Gcd(b, a % b)

Abs(x) == IF x < 0 THEN -x ELSE x

Rat(n, d) ==
  LET s == IF d < 0 THEN -1 ELSE 1
      g == Gcd(Abs(n), Abs(d))
  IN  [n |-> (s * n) \div g, d |-> (s * d) \div g]

Num(k) == [n |-> k, d |-> 1]

RMul(a, b) ==
  LET g1 == Gcd(Abs(a.n), b.d)
      g2 == Gcd(Abs(b.n), a.d)
  IN  [n |-> (a.n \div g1) * (b.n \div g2), d |-> (a.d \div g2) * (b.d \div g1)]

RDiv(a, b) == RMul(a, IF b.n < 0 THEN [n |-> -b.d, d |-> -b.n] ELSE [n |-> b.d, d |-> b.n])

RAdd(a, b) ==
  LET g == Gcd(a.d, b.d)
      l == (a.d \div g) * b.d
  IN  Rat(a.n * (l \div a.d) + b.n * (l \div b.d), l)

RNeg(a) == [n |-> -a.n, d |-> a.d]

RSub(a, b) == RAdd(a, RNeg(b))

RLeq(a, b) == RSub(a, b).n <= 0

RLess(a, b) == RSub(a, b).n < 0

RAbs(a) == [n |-> Abs(a.n), d |-> a.d]

RMin(a, b) == IF RLess(b, a) THEN b ELSE a

(* Math.sqrt: exact on perfect squares, else truncated to 1/1000 (to 1/100 *)
(* from 2147 on, where the finer scale leaves the integers of the checker).*)
RECURSIVE ISqrtBetween(_, _, _)
ISqrtBetween(lo, hi, x) ==
  IF lo = hi THEN lo
  ELSE LET mid == (lo + hi + 1) \div 2
       IN  IF mid * mid <= x THEN ISqrtBetween(mid, hi, x)
           ELSE ISqrtBetween(lo, mid - 1, x)

ISqrt(x) == ISqrtBetween(0, IF x < 46340 THEN x ELSE 46340, x)

IsSquare(x) == ISqrt(x) * ISqrt(x) = x

Sqrt(a) ==
  IF IsSquare(a.n) /\ IsSquare(a.d)
    THEN Rat(ISqrt(a.n), ISqrt(a.d))
    ELSE IF a.n < 2147 THEN Rat(ISqrt((a.n * 1000000) \div a.d), 1000)
    ELSE Rat(ISqrt((a.n * 10000) \div a.d), 100)

(***************************************************************************)
(* Strings                                                                 *)
(***************************************************************************)
LowerAlphabet ==
  <<"a","b","c","d","e","f","g","h","i","j","k","l","m",
    "n","o","p","q","r","s","t","u","v","w","x","y","z">>

UpperAlphabet ==
  <<"A","B","C","D","E","F","G","H","I","J","K","L","M",
    "N","O","P","Q","R","S","T","U","V","W","X","Y","Z">>

toLowerCase(s) ==
  [i \in DOMAIN s |->
     IF \E k \in 1..26 : UpperAlphabet[k] = s[i]
       THEN LowerAlphabet[CHOOSE k \in 1..26 : UpperAlphabet[k] = s[i]]
       ELSE s[i]]

toUpperCase(s) ==
  [i \in DOMAIN s |->
     IF \E k \in 1..26 : LowerAlphabet[k] = s[i]
       THEN UpperAlphabet[CHOOSE k \in 1..26 : LowerAlphabet[k] = s[i]]
       ELSE s[i]]

RECURSIVE trim(_)
trim(s) ==
  IF s = <<>> THEN s
  ELSE IF Head(s) = " " THEN trim(Tail(s))
  ELSE IF s[Len(s)] = " " THEN trim(SubSeq(s, 1, Len(s) - 1))
  ELSE s

Digits == <<"0","1","2","3","4","5","6","7","8","9">>

RECURSIVE NumberToString(_)
NumberToString(k) ==
  IF k < 10 THEN <<Digits[k + 1]>>
  ELSE NumberToString(k \div 10) \o <<Digits[(k % 10) + 1]>>

(***************************************************************************)
(* JavaScript values                                                       *)
(***************************************************************************)
Undefined == [kind |-> "undefined"]

ServiceError(statusCode) == [type |-> "ServiceError", statusCode |-> statusCode]

(* The rejection of axios.get: an HTTP error response carries its status,  *)
(* a timeout or network failure carries no response.                       *)
AxiosError(status) == [type |-> "AxiosError", response |-> [status |-> status]]

AxiosNoResponse == [type |-> "AxiosError", response |-> Undefined]

TypeError == [type |-> "TypeError"]

Resolved(v) == [ok |-> TRUE, value |-> v]

Rejected(e) == [ok |-> FALSE, error |-> e]

NaN == [kind |-> "NaN"]

(* a JavaScript string value; typeof x === "number" and not NaN            *)
StringValue(s) == [kind |-> "string", chars |-> s]

IsNumber(x) == "n" \in DOMAIN x

(* the truthiness of a JavaScript value *)
Truthy(x) ==
  IF IsNumber(x) THEN x.n # 0
  ELSE IF x.kind = "string" THEN x.chars # <<>>
  ELSE FALSE

(* a * b in JavaScript: undefined and a string that is no numeral convert  *)
(* to NaN, NaN propagates                                                  *)
Times(a, b) ==
  IF IsNumber(a) /\ IsNumber(b) THEN RMul(a, b) ELSE NaN

(* parseFloat on a decimal literal: digits with at most one "."           *)
RECURSIVE DigitsValue(_)
DigitsValue(s) ==
  IF s = <<>> THEN 0
  ELSE DigitsValue(SubSeq(s, 1, Len(s) - 1)) * 10
         + ((CHOOSE k \in 1..10 : Digits[k] = s[Len(s)]) - 1)

RECURSIVE PowerOfTen(_)
PowerOfTen(k) == IF k = 0 THEN 1 ELSE 10 * PowerOfTen(k - 1)

parseFloat(s) ==
  LET dots == { i \in DOMAIN s : s[i] = "." }
  IN  IF dots = {} THEN Num(DigitsValue(s))
      ELSE LET i == CHOOSE j \in dots : TRUE
           IN  Rat(DigitsValue(SubSeq(s, 1, i - 1) \o SubSeq(s, i + 1, Len(s))),
                   PowerOfTen(Len(s) - i))

(* A query-string parameter that is present *)
QueryString(s) == [kind |-> "string", chars |-> s]

(* TokenFeeController: let spreadFee = undefined;                          *)
(* if (customSpreadFee) spreadFee = parseFloat(customSpreadFee).  A query  *)
(* parameter is a string; the empty string is the only falsy one.          *)
spreadFeeOfQuery(customSpreadFee) ==
  IF customSpreadFee = Undefined \/ customSpreadFee.chars = <<>> THEN Undefined
  ELSE parseFloat(customSpreadFee.chars)

(* Map.set / Map.get / Map.has on a Map represented as a function.         *)
(* a set that keeps the timestamp of the entry it replaces *)
MapSet_keepsOldTimestamp(m, k, v) ==
  [x \in (DOMAIN m) \cup {k} |->
     IF x = k THEN (IF k \in DOMAIN m THEN [v EXCEPT !.timestamp = m[k].timestamp] ELSE v)
     ELSE m[x]]

MapSet(m, k, v) == [x \in (DOMAIN m) \cup {k} |-> IF x = k THEN v ELSE m[x]]

MapHas(m, k) == k \in DOMAIN m

EmptyMap == [x \in {} |-> Undefined]

(***************************************************************************)
(* Token identity (src/src/constants/tokens.ts and the private tables of   *)
(* the CoinGecko variant)                                                  *)
(***************************************************************************)
TOKEN_INFO ==
  { [key |-> <<"e","t","h">>, id |-> <<"e","t","h","e","r","e","u","m">>, symbol |-> <<"E","T","H">>],
    [key |-> <<"u","s","d","t">>, id |-> <<"t","e","t","h","e","r">>, symbol |-> <<"U","S","D","T">>],
    [key |-> <<"w","b","t","c">>, id |-> <<"b","i","t","c","o","i","n">>, symbol |-> <<"W","B","T","C">>],
    [key |-> <<"s","o","l">>, id |-> <<"s","o","l","a","n","a">>, symbol |-> <<"S","O","L">>],
    [key |-> <<"p","e","p","e">>, id |-> <<"p","e","p","e">>, symbol |-> <<"P","E","P","E">>],
    [key |-> <<"b","n","b">>, id |-> <<"b","i","n","a","n","c","e","c","o","i","n">>, symbol |-> <<"B","N","B">>],
    [key |-> <<"m","a","t","i","c">>, id |-> <<"m","a","t","i","c","-","n","e","t","w","o","r","k">>, symbol |-> <<"M","A","T","I","C">>] }

tokenMap ==
  { [key |-> <<"b","t","c">>, id |-> <<"b","i","t","c","o","i","n">>],
    [key |-> <<"e","t","h">>, id |-> <<"e","t","h","e","r","e","u","m">>],
    [key |-> <<"m","a","t","i","c">>, id |-> <<"m","a","t","i","c","-","n","e","t","w","o","r","k">>],
    [key |-> <<"b","n","b">>, id |-> <<"b","i","n","a","n","c","e","c","o","i","n">>] }

normalizeTokenId(token) ==
  LET normalized == trim(toLowerCase(token))
  IN  IF \E e \in TOKEN_INFO : e.key = normalized
        THEN (CHOOSE e \in TOKEN_INFO : e.key = normalized).id
      ELSE IF \E e \in tokenMap : e.key = normalized
        THEN (CHOOSE e \in tokenMap : e.key = normalized).id
      ELSE normalized

(* Object.values(TOKEN_INFO).find(info => info.id === normalizedToken),    *)
(* then tokenInfo ? tokenInfo.symbol : token.toUpperCase().                *)
cmcTokenSymbol(token) ==
  LET normalizedToken == normalizeTokenId(token)
  IN  IF \E e \in TOKEN_INFO : e.id = normalizedToken
        THEN (CHOOSE e \in TOKEN_INFO : e.id = normalizedToken).symbol
        ELSE toUpperCase(token)

geckoTokenMap ==
  { [key |-> <<"e","t","h">>, id |-> <<"e","t","h","e","r","e","u","m">>],
    [key |-> <<"b","t","c">>, id |-> <<"b","i","t","c","o","i","n">>],
    [key |-> <<"s","o","l">>, id |-> <<"s","o","l","a","n","a">>],
    [key |-> <<"a","v","a","x">>, id |-> <<"a","v","a","l","a","n","c","h","e","-","2">>],
    [key |-> <<"b","n","b">>, id |-> <<"b","i","n","a","n","c","e","c","o","i","n">>],
    [key |-> <<"m","a","t","i","c">>, id |-> <<"m","a","t","i","c","-","n","e","t","w","o","r","k">>],
    [key |-> <<"d","o","t">>, id |-> <<"p","o","l","k","a","d","o","t">>],
    [key |-> <<"l","i","n","k">>, id |-> <<"c","h","a","i","n","l","i","n","k">>],
    [key |-> <<"u","n","i">>, id |-> <<"u","n","i","s","w","a","p">>],
    [key |-> <<"a","d","a">>, id |-> <<"c","a","r","d","a","n","o">>],
    [key |-> <<"d","o","g","e">>, id |-> <<"d","o","g","e","c","o","i","n">>],
    [key |-> <<"s","h","i","b">>, id |-> <<"s","h","i","b","a","-","i","n","u">>] }

normalizeTokenName(token) ==
  LET normalized == trim(toLowerCase(token))
  IN  IF \E e \in geckoTokenMap : e.key = normalized
        THEN (CHOOSE e \in geckoTokenMap : e.key = normalized).id
        ELSE normalized

symbolMap ==
  { [key |-> <<"e","t","h","e","r","e","u","m">>, symbol |-> <<"E","T","H">>],
    [key |-> <<"b","i","t","c","o","i","n">>, symbol |-> <<"B","T","C">>],
    [key |-> <<"s","o","l","a","n","a">>, symbol |-> <<"S","O","L">>],
    [key |-> <<"a","v","a","l","a","n","c","h","e","-","2">>, symbol |-> <<"A","V","A","X">>],
    [key |-> <<"b","i","n","a","n","c","e","c","o","i","n">>, symbol |-> <<"B","N","B">>],
    [key |-> <<"m","a","t","i","c","-","n","e","t","w","o","r","k">>, symbol |-> <<"M","A","T","I","C">>],
    [key |-> <<"p","o","l","k","a","d","o","t">>, symbol |-> <<"D","O","T">>],
    [key |-> <<"c","h","a","i","n","l","i","n","k">>, symbol |-> <<"L","I","N","K">>],
    [key |-> <<"u","n","i","s","w","a","p">>, symbol |-> <<"U","N","I">>],
    [key |-> <<"c","a","r","d","a","n","o">>, symbol |-> <<"A","D","A">>],
    [key |-> <<"d","o","g","e","c","o","i","n">>, symbol |-> <<"D","O","G","E">>],
    [key |-> <<"s","h","i","b","a","-","i","n","u">>, symbol |-> <<"S","H","I","B">>] }

getTokenSymbol(normalizedToken) ==
  IF \E e \in symbolMap : e.key = normalizedToken
    THEN (CHOOSE e \in symbolMap : e.key = normalizedToken).symbol
    ELSE toUpperCase(normalizedToken)

(* The two variants of TokenFeeService resolve a token differently.        *)
NormalizedToken(v, token) ==
  IF v = "cmc" THEN normalizeTokenId(token) ELSE normalizeTokenName(token)

TokenSymbol(v, token) ==
  IF v = "cmc" THEN cmcTokenSymbol(token)
  ELSE getTokenSymbol(normalizeTokenName(token))

(* a key made of the token alone *)
cacheKey_tokenOnly(normalizedToken, days) == normalizedToken

(* cacheKey = `${normalizedToken}-${days}`                                 *)
cacheKey(normalizedToken, days) ==
  normalizedToken \o <<"-">> \o NumberToString(days)

(* timeframe: `${days} day${days > 1 ? "s" : ""}`                          *)
timeframe(days) ==
  NumberToString(days) \o <<" ","d","a","y">> \o (IF days > 1 THEN <<"s">> ELSE <<>>)

(***************************************************************************)
(* Program constants                                                       *)
(***************************************************************************)
(* 5 * 60 * 1000 ms, in minutes *)
CACHE_TTL == 5

(* SpreadFeeService: 15 * 60 * 1000 ms, in minutes *)
SPREAD_CACHE_TTL == 15

DEFAULT_IDR_TO_USD_RATE == 15500

(* 60 * 60 * 1000 ms, in minutes *)
RATE_REFRESH_INTERVAL == 60

ADMIN_FEE_PERCENTAGE == Rat(5, 1000)

DEFAULT_SPREAD_FEE_PERCENTAGE == Rat(2, 1000)

(***************************************************************************)
(* Fee policy and volatility estimators                                    *)
(***************************************************************************)
(* the recommended fee without its cap *)
calculateRecommendedSpreadFee_uncapped(volatility) ==
  LET baseFee == Rat(2, 1000)
      volatilityComponent == RMul(volatility, Rat(5, 10))
  IN  RAdd(baseFee, volatilityComponent)

calculateRecommendedSpreadFee(volatility) ==
  LET baseFee == Rat(2, 1000)
      volatilityComponent == RMul(volatility, Rat(5, 10))
      maxFee == Rat(2, 100)
      totalFee == RAdd(baseFee, volatilityComponent)
  IN  RMin(totalFee, maxFee)

spreadCalculateRecommendedSpreadFee(volatility) ==
  LET baseFee == Rat(1, 1000)
      volatilityComponent == RMul(volatility, Rat(5, 10))
      maxFee == Rat(3, 100)
      totalFee == RAdd(baseFee, volatilityComponent)
  IN  RMin(totalFee, maxFee)

RECURSIVE RSum(_)
RSum(s) == IF s = <<>> THEN Num(0) ELSE RAdd(Head(s), RSum(Tail(s)))

(* the estimator returning the mean change in place of its dispersion *)
calculateVolatilityFromPrices_meanChange(prices) ==
  IF Len(prices) < 2 THEN Num(0)
  ELSE
    LET priceValues == [i \in 1..Len(prices) |-> prices[i][2]]
        pctChanges == [i \in 1..(Len(prices) - 1) |->
                         RDiv(RSub(priceValues[i + 1], priceValues[i]), priceValues[i])]
        mean == RDiv(RSum(pctChanges), Num(Len(pctChanges)))
        samplesPerDay == Len(pctChanges)
        annualizedVolatility == RMul(mean, Sqrt(Num(365 * samplesPerDay)))
        dailyVolatility == RDiv(annualizedVolatility, Sqrt(Num(365)))
    IN  dailyVolatility

(* prices: sequence of <<timestamp, price>> pairs *)
calculateVolatilityFromPrices(prices) ==
  IF Len(prices) < 2 THEN Num(0)
  ELSE
    LET priceValues == [i \in 1..Len(prices) |-> prices[i][2]]
        pctChanges == [i \in 1..(Len(prices) - 1) |->
                         RDiv(RSub(priceValues[i + 1], priceValues[i]), priceValues[i])]
        mean == RDiv(RSum(pctChanges), Num(Len(pctChanges)))
        squaredDifferences == [i \in 1..Len(pctChanges) |->
                                 RMul(RSub(pctChanges[i], mean), RSub(pctChanges[i], mean))]
        variance == RDiv(RSum(squaredDifferences), Num(Len(pctChanges)))
        stdDev == Sqrt(variance)
        samplesPerDay == Len(pctChanges)
        annualizedVolatility == RMul(stdDev, Sqrt(Num(365 * samplesPerDay)))
        dailyVolatility == RDiv(annualizedVolatility, Sqrt(Num(365)))
    IN  dailyVolatility

(* CoinMarketCap variant: Math.abs(percent_change_24h || 0) / 100, scaled  *)
(* by Math.sqrt(days) for a window of more than one day.                   *)
volatilityFromPercentChange(percent_change_24h, days) ==
  LET percentChange24h ==
        RDiv(RAbs(IF percent_change_24h = Undefined THEN Num(0) ELSE percent_change_24h),
             Num(100))
  IN  IF days = 1 THEN percentChange24h
      ELSE RMul(percentChange24h, Sqrt(Num(days)))

(* amountAfterFees: the CoinMarketCap variant deducts the fees, the        *)
(* CoinGecko variant adds them.                                            *)
amountAfterFeesOf(v, amount, totalFeeAmount) ==
  IF v = "cmc" THEN RSub(amount, totalFeeAmount) ELSE RAdd(amount, totalFeeAmount)

(* The result object built by calculateFees once the quote and the spread  *)
(* fee are known.                                                          *)
FeeCalculation(v, priceData, amount, spreadFeePercentage, t) ==
  LET adminFeeAmount == RMul(amount, ADMIN_FEE_PERCENTAGE)
      spreadFeeAmount == RMul(amount, spreadFeePercentage)
      totalFeeAmount == RAdd(adminFeeAmount, spreadFeeAmount)
      totalFeePercentage == RAdd(ADMIN_FEE_PERCENTAGE, spreadFeePercentage)
  IN  [token |-> priceData.token,
       tokenSymbol |-> priceData.tokenSymbol,
       priceUsd |-> priceData.priceUsd,
       priceIdr |-> priceData.priceIdr,
       adminFeePercentage |-> ADMIN_FEE_PERCENTAGE,
       adminFeeAmount |-> adminFeeAmount,
       spreadFeePercentage |-> spreadFeePercentage,
       spreadFeeAmount |-> spreadFeeAmount,
       totalFeePercentage |-> totalFeePercentage,
       totalFeeAmount |-> totalFeeAmount,
       amountBeforeFees |-> amount,
       amountAfterFees |-> amountAfterFeesOf(v, amount, totalFeeAmount),
       exchangeRate |-> priceData.priceIdr,
       timestamp |-> t]

(* sourceAmount = idrxAmount / (exchangeRate * (1 - totalFeePercentage))   *)
sourceAmountOf(idrxAmount, exchangeRate, spreadFeePercentage) ==
  LET totalFeePercentage == RAdd(ADMIN_FEE_PERCENTAGE, spreadFeePercentage)
  IN  RDiv(idrxAmount, RMul(exchangeRate, RSub(Num(1), totalFeePercentage)))

(* a catch that wraps whatever it caught into a 500 *)
rethrowAsServiceError_always500(error) == ServiceError(500)

(* catch (error) { if (error instanceof ServiceError) throw error;         *)
(*                 throw new ServiceError(..., 500) }                      *)
rethrowAsServiceError(error) ==
  IF error.type = "ServiceError" THEN error ELSE ServiceError(500)

(* the catch without its 429 branch *)
classifyProviderError_no429(error) ==
  IF error.type = "ServiceError" THEN error ELSE ServiceError(500)

(* catch of getTokenPrice / calculateVolatility / calculateSpreadFee       *)
classifyProviderError(error) ==
  IF error.type = "ServiceError" THEN error
  ELSE IF error.type = "AxiosError" /\ error.response # Undefined
          /\ error.response.status = 429 THEN ServiceError(429)
  ELSE ServiceError(500)

(* catch of fetchPriceHistory *)
fetchPriceHistoryError(error) ==
  IF error.type = "AxiosError" /\ error.response # Undefined
     /\ error.response.status = 404 THEN ServiceError(404)
  ELSE error

(* errorHandler middleware: the status of the HTTP answer *)
errorHandler(err) ==
  IF err.type = "ServiceError" THEN err.statusCode ELSE 500

(***************************************************************************)
(* Inputs of the model: what callers pass and what the providers answer    *)
(***************************************************************************)
Callers == {1, 2}

(* Specifications of one caller use the first. *)
SingleCaller == {1}

InputTokens == { <<"E","T","H">>, <<"s","o","l">> }

EngineTokens == { <<"E","T","H">> }

(* inputs of the token resolver: aliases in several spellings, canonical   *)
(* ids, and a token neither table knows                                    *)
ResolverTokens ==
  { <<"e","t","h">>, <<" ","E","T","H"," ">>, <<"b","t","c">>, <<"B","t","c">>,
    <<"e","t","h","e","r","e","u","m">>, <<"b","i","t","c","o","i","n">>,
    <<"x","r","p">>, <<"X","r","p">> }

Amounts == { Num(-1), Num(0), Num(1) }

IdrxAmounts == { Num(0), Num(27900000) }

(* customSpreadFee as it arrives in the query string: absent, "0", "0.002" *)
QuerySpreadFees ==
  { Undefined, QueryString(<<"0">>), QueryString(<<"0",".","0","0","2">>) }

CustomSpreadFees == { spreadFeeOfQuery(q) : q \in QuerySpreadFees }

(* The overrides tried with an amount: all of them with a positive amount, *)
(* none with an amount that is rejected before the override is looked at.  *)
SpreadFeesFor(amount) ==
  IF RLess(Num(0), amount) THEN CustomSpreadFees ELSE { Undefined }

DaysInputs == { 0, 1, 31 }

(* two valid windows, and two spellings of one token next to another token *)
WindowInputs == { 1, 2 }

KeyTokens == { <<"E","T","H">>, <<"e","t","h">>, <<"s","o","l">> }

(* the tokens argument of getMarketVolatility / calculateAverageSpreadFee *)
MarketTokenLists == { << <<"E","T","H">> >>, << <<"E","T","H">>, <<"s","o","l">> >> }

Prices == { Num(1800), Num(2000) }

Rates == { Num(16000) }

PercentChanges == { Undefined, Num(1), Num(-5) }

PriceHistories ==
  { <<>>,
    << <<1, Num(100)>>, <<2, Num(100)>>, <<3, Num(100)>> >>,
    << <<1, Num(100)>>, <<2, Num(200)>>, <<3, Num(100)>> >> }

ProviderErrors == { AxiosError(404), AxiosError(429), AxiosError(500), AxiosNoResponse }

PriceResponses ==
  { [kind |-> "data", price |-> p] : p \in Prices }
    \cup { [kind |-> "noEntry"] }
    \cup { [kind |-> "error", error |-> e] : e \in ProviderErrors }

QuoteResponses ==
  { [kind |-> "data", percent_change_24h |-> x] : x \in PercentChanges }
    \cup { [kind |-> "noEntry"] }
    \cup { [kind |-> "error", error |-> e] : e \in ProviderErrors }

HistoryResponses ==
  { [kind |-> "data", prices |-> h] : h \in PriceHistories }
    \cup { [kind |-> "noPrices"] }
    \cup { [kind |-> "error", error |-> e] : e \in ProviderErrors }

VolatilityResponses(v) == IF v = "cmc" THEN QuoteResponses ELSE HistoryResponses

RateResponses ==
  { [kind |-> "data", rate |-> x] : x \in Rates }
    \cup { [kind |-> "noRate"] }
    \cup { [kind |-> "error", error |-> e] : e \in ProviderErrors }

(* what a provider may put in the rate field besides a positive number *)
OddRates == { Num(0), StringValue(<<"n","/","a">>) }

(* The answers the refresher is checked against: those, a 200 answer whose *)
(* quote object for IDR is there but carries no price, and 200 answers     *)
(* whose rate field holds zero or a text.                                  *)
RefresherResponses ==
  RateResponses
    \cup { [kind |-> "noPrice"] }
    \cup { [kind |-> "oddRate", rate |-> x] : x \in OddRates }

(***************************************************************************)
(* State                                                                   *)
(***************************************************************************)
VARIABLES
  variant,                 \* which TokenFeeService is deployed: "cmc" or "gecko"
  now,                     \* Date.now(), in minutes since construction
  IDR_TO_USD_RATE,         \* TokenFeeService.IDR_TO_USD_RATE
  priceCache,              \* TokenFeeService.priceCache
  volatilityCache,         \* TokenFeeService.volatilityCache
  spreadVolatilityCache,   \* SpreadFeeService.volatilityCache
  req,                     \* per caller: the call in progress and its outcome
  rateUpdates,             \* updateIdrUsdRate() calls awaiting the provider
  ncalls                   \* calls started so far

vars == <<variant, now, IDR_TO_USD_RATE, priceCache, volatilityCache,
          spreadVolatilityCache, req, rateUpdates, ncalls>>

IdleRequest ==
  [pc |-> "idle", stack |-> <<>>, sub |-> Undefined, result |-> Undefined,
   call |-> Undefined, prev |-> Undefined, priceCalls |-> 0, volCalls |-> 0,
   txCalls |-> 0]

Init ==
  /\ variant \in {"cmc", "gecko"}
  /\ now = 0
  /\ IDR_TO_USD_RATE = Num(DEFAULT_IDR_TO_USD_RATE)
  /\ priceCache = EmptyMap
  /\ volatilityCache = EmptyMap
  /\ spreadVolatilityCache = EmptyMap
  /\ req = [c \in Callers |-> IdleRequest]
  /\ rateUpdates = 1
  /\ ncalls = 0

(***************************************************************************)
(* Running a call up to its next wait for the network.  A frame of the     *)
(* stack is an async function that awaits the frame above it; the head is  *)
(* the innermost one.                                                      *)
(***************************************************************************)
(* cacheValid with the window one minute short *)
cacheValid_oneMinuteShort(entry, t, ttl) == t - entry.timestamp < ttl - 1

cacheValid(entry, t, ttl) == t - entry.timestamp < ttl

(* An async function settles: its awaiting caller resumes, or the whole    *)
(* call is done.                                                           *)
Deliver(r, outcome) ==
  IF r.stack = <<>>
    THEN [r EXCEPT !.pc = "done", !.result = outcome]
    ELSE [r EXCEPT !.pc = "ret", !.sub = outcome]

Push(r, frame) == [r EXCEPT !.stack = <<frame>> \o @]

Pop(r) == [r EXCEPT !.stack = Tail(@), !.sub = Undefined]

ReplaceTop(r, frame) == [r EXCEPT !.stack = <<frame>> \o Tail(@), !.sub = Undefined]

(* getTokenPrice serving whatever entry the cache holds, however old *)
getTokenPriceEnter_anyEntry(r, v, t, pcache, token) ==
  LET normalizedToken == NormalizedToken(v, token)
  IN  IF MapHas(pcache, normalizedToken)
        THEN Deliver(r, Resolved(pcache[normalizedToken].data))
        ELSE [Push(r, [fn |-> "getTokenPrice", token |-> token])
                EXCEPT !.pc = "wait", !.priceCalls = @ + 1]

(* getTokenPrice up to the axios.get *)
getTokenPriceEnter(r, v, t, pcache, token) ==
  LET normalizedToken == NormalizedToken(v, token)
  IN  IF MapHas(pcache, normalizedToken)
         /\ cacheValid(pcache[normalizedToken], t, CACHE_TTL)
        THEN Deliver(r, Resolved(pcache[normalizedToken].data))
        ELSE [Push(r, [fn |-> "getTokenPrice", token |-> token])
                EXCEPT !.pc = "wait", !.priceCalls = @ + 1]

(* calculateVolatility checking only the upper end of the window *)
calculateVolatilityEnter_noLowerBound(r, v, t, vcache, token, days) ==
  IF days > 30
    THEN Deliver(r, Rejected(ServiceError(400)))
  ELSE
    LET key == cacheKey(NormalizedToken(v, token), days)
    IN  IF MapHas(vcache, key) /\ cacheValid(vcache[key], t, CACHE_TTL)
          THEN Deliver(r, Resolved(vcache[key].result))
          ELSE [Push(r, [fn |-> "calculateVolatility", token |-> token, days |-> days])
                  EXCEPT !.pc = "wait", !.volCalls = @ + 1]

(* calculateVolatility up to the axios.get *)
calculateVolatilityEnter(r, v, t, vcache, token, days) ==
  IF days < 1 \/ days > 30
    THEN Deliver(r, Rejected(ServiceError(400)))
  ELSE
    LET key == cacheKey(NormalizedToken(v, token), days)
    IN  IF MapHas(vcache, key) /\ cacheValid(vcache[key], t, CACHE_TTL)
          THEN Deliver(r, Resolved(vcache[key].result))
          ELSE [Push(r, [fn |-> "calculateVolatility", token |-> token, days |-> days])
                  EXCEPT !.pc = "wait", !.volCalls = @ + 1]

(* calculateFees rejecting only negative amounts *)
calculateFeesEnter_zeroAccepted(r, v, t, pcache, token, amount, customSpreadFee) ==
  IF RLess(amount, Num(0))
    THEN Deliver(r, Rejected(ServiceError(400)))
    ELSE getTokenPriceEnter(
           Push(r, [fn |-> "calculateFees", token |-> token, amount |-> amount,
                    customSpreadFee |-> customSpreadFee, at |-> "price",
                    priceData |-> Undefined]),
           v, t, pcache, token)

(* calculateFees up to its first await *)
calculateFeesEnter(r, v, t, pcache, token, amount, customSpreadFee) ==
  IF RLeq(amount, Num(0))
    THEN Deliver(r, Rejected(ServiceError(400)))
    ELSE getTokenPriceEnter(
           Push(r, [fn |-> "calculateFees", token |-> token, amount |-> amount,
                    customSpreadFee |-> customSpreadFee, at |-> "price",
                    priceData |-> Undefined]),
           v, t, pcache, token)

calculateIdrxAmountEnter(r, v, t, pcache, token, amount, customSpreadFee) ==
  calculateFeesEnter(
    Push(r, [fn |-> "calculateIdrxAmount", token |-> token, amount |-> amount,
             customSpreadFee |-> customSpreadFee]),
    v, t, pcache, token, amount, customSpreadFee)

(* calculateSourceAmount asking for the volatility before it has a quote *)
calculateSourceAmountEnter_volatilityFirst(r, v, t, pcache, token, idrxAmount, customSpreadFee) ==
  IF RLeq(idrxAmount, Num(0))
    THEN Deliver(r, Rejected(ServiceError(400)))
    ELSE [Push(Push(r, [fn |-> "calculateSourceAmount", token |-> token,
                        idrxAmount |-> idrxAmount, customSpreadFee |-> customSpreadFee,
                        at |-> "vol", priceData |-> Undefined,
                        spreadFeePercentage |-> Undefined, sourceAmount |-> Undefined]),
               [fn |-> "calculateVolatility", token |-> token, days |-> 1])
            EXCEPT !.pc = "wait", !.volCalls = @ + 1]

(* calculateSourceAmount up to its first await *)
calculateSourceAmountEnter(r, v, t, pcache, token, idrxAmount, customSpreadFee) ==
  IF RLeq(idrxAmount, Num(0))
    THEN Deliver(r, Rejected(ServiceError(400)))
    ELSE getTokenPriceEnter(
           Push(r, [fn |-> "calculateSourceAmount", token |-> token,
                    idrxAmount |-> idrxAmount, customSpreadFee |-> customSpreadFee,
                    at |-> "price", priceData |-> Undefined,
                    spreadFeePercentage |-> Undefined, sourceAmount |-> Undefined]),
           v, t, pcache, token)

(* calculateSourceAmount leaving the spread fee of the breakdown to        *)
(* calculateFees                                                           *)
calculateSourceAmountDerive_feeRederived(r, v, t, pcache, frame, priceData, spreadFeePercentage) ==
  LET exchangeRate == priceData.priceIdr
      sourceAmount == sourceAmountOf(frame.idrxAmount, exchangeRate, spreadFeePercentage)
  IN  calculateFeesEnter(
        ReplaceTop(r, [frame EXCEPT !.at = "fees", !.priceData = priceData,
                                    !.spreadFeePercentage = spreadFeePercentage,
                                    !.sourceAmount = sourceAmount]),
        v, t, pcache, frame.token, sourceAmount, Undefined)

(* calculateSourceAmount once the quote and the spread fee are known:      *)
(* derive sourceAmount and call calculateFees with the fee pinned.         *)
calculateSourceAmountDerive(r, v, t, pcache, frame, priceData, spreadFeePercentage) ==
  LET exchangeRate == priceData.priceIdr
      sourceAmount == sourceAmountOf(frame.idrxAmount, exchangeRate, spreadFeePercentage)
  IN  calculateFeesEnter(
        ReplaceTop(r, [frame EXCEPT !.at = "fees", !.priceData = priceData,
                                    !.spreadFeePercentage = spreadFeePercentage,
                                    !.sourceAmount = sourceAmount]),
        v, t, pcache, frame.token, sourceAmount, spreadFeePercentage)

(* the conversion applied to the amount before fees *)
idrxAmountOf_beforeFees(feeCalculation) ==
  RMul(feeCalculation.amountBeforeFees, feeCalculation.exchangeRate)

(* idrxAmount = feeCalculation.amountAfterFees * feeCalculation.exchangeRate *)
idrxAmountOf(feeCalculation) ==
  RMul(feeCalculation.amountAfterFees, feeCalculation.exchangeRate)

(* the override tested for truthiness, so that 0 counts as absent *)
overrideSupplied_truthy(customSpreadFee) ==
  customSpreadFee # Undefined /\ customSpreadFee # Num(0)

(* if (customSpreadFee !== undefined) *)
overrideSupplied(customSpreadFee) == customSpreadFee # Undefined

(* a failed volatility lookup leaving no spread fee at all *)
spreadFeeFromVolatility_noDefault(o) ==
  IF o.ok THEN o.value.recommendedSpreadFee ELSE Num(0)

(* try { spreadFeePercentage = (await calculateVolatility(token, 1))       *)
(*         .recommendedSpreadFee } catch { console.warn(...) }: the default *)
(* assigned before the try stays when the lookup fails.                    *)
spreadFeeFromVolatility(o) ==
  IF o.ok THEN o.value.recommendedSpreadFee ELSE DEFAULT_SPREAD_FEE_PERCENTAGE

(* The continuation of the innermost async function after the function it  *)
(* awaited has settled with r.sub.                                         *)
Resume(r, v, t, pcache, vcache) ==
  LET top == Head(r.stack)
      o == r.sub
  IN  CASE top.fn = "calculateFees" /\ top.at = "price" ->
             IF ~o.ok THEN Deliver(Pop(r), Rejected(rethrowAsServiceError(o.error)))
             ELSE IF overrideSupplied(top.customSpreadFee)
               THEN Deliver(Pop(r), Resolved(
                      FeeCalculation(v, o.value, top.amount, top.customSpreadFee, t)))
             ELSE calculateVolatilityEnter(
                    ReplaceTop(r, [top EXCEPT !.at = "vol", !.priceData = o.value]),
                    v, t, vcache, top.token, 1)
        [] top.fn = "calculateFees" /\ top.at = "vol" ->
             LET spreadFeePercentage == spreadFeeFromVolatility(o)
             IN  Deliver(Pop(r), Resolved(
                   FeeCalculation(v, top.priceData, top.amount, spreadFeePercentage, t)))
        [] top.fn = "calculateIdrxAmount" ->
             IF ~o.ok THEN Deliver(Pop(r), Rejected(rethrowAsServiceError(o.error)))
             ELSE Deliver(Pop(r), Resolved(
                    [idrxAmount |-> idrxAmountOf(o.value),
                     feeCalculation |-> o.value]))
        [] top.fn = "calculateSourceAmount" /\ top.at = "price" ->
             IF ~o.ok THEN Deliver(Pop(r), Rejected(rethrowAsServiceError(o.error)))
             ELSE IF overrideSupplied(top.customSpreadFee)
               THEN calculateSourceAmountDerive(r, v, t, pcache, top, o.value,
                                                top.customSpreadFee)
             ELSE calculateVolatilityEnter(
                    ReplaceTop(r, [top EXCEPT !.at = "vol", !.priceData = o.value]),
                    v, t, vcache, top.token, 1)
        [] top.fn = "calculateSourceAmount" /\ top.at = "vol" ->
             LET spreadFeePercentage == spreadFeeFromVolatility(o)
             IN  calculateSourceAmountDerive(r, v, t, pcache, top, top.priceData,
                                             spreadFeePercentage)
        [] top.fn = "calculateSourceAmount" /\ top.at = "fees" ->
             IF ~o.ok THEN Deliver(Pop(r), Rejected(rethrowAsServiceError(o.error)))
             ELSE Deliver(Pop(r), Resolved(
                    [sourceAmount |-> top.sourceAmount, feeCalculation |-> o.value]))

(* Continuations run one after the other, with nothing in between, until   *)
(* the call waits for the network or is done.                              *)
RECURSIVE Run(_, _, _, _, _)
Run(r, v, t, pcache, vcache) ==
  IF r.pc = "ret" THEN Run(Resume(r, v, t, pcache, vcache), v, t, pcache, vcache)
  ELSE r

(***************************************************************************)
(* What the functions that talk to the provider do with its answer         *)
(***************************************************************************)
(* the conversion done the wrong way round *)
priceIdrOf_dividing(priceUsd, rate) ==
  IF IsNumber(priceUsd) /\ IsNumber(rate) /\ rate.n # 0 THEN RDiv(priceUsd, rate) ELSE NaN

(* const priceIdr = priceUsd * this.IDR_TO_USD_RATE *)
priceIdrOf(priceUsd, rate) == Times(priceUsd, rate)

(* getTokenPrice converting with the hardcoded default rate *)
getTokenPriceOutcome_defaultRate(v, token, resp, rate, t) ==
  IF resp.kind = "error" THEN Rejected(classifyProviderError(resp.error))
  ELSE IF resp.kind = "noEntry" THEN Rejected(classifyProviderError(ServiceError(404)))
  ELSE Resolved([token |-> NormalizedToken(v, token),
                 tokenSymbol |-> TokenSymbol(v, token),
                 priceUsd |-> resp.price,
                 priceIdr |-> priceIdrOf(resp.price, Num(DEFAULT_IDR_TO_USD_RATE)),
                 timestamp |-> t])

(* getTokenPrice after the provider's answer: the rejection, or the price  *)
(* data converted with the rate read at that moment.                       *)
getTokenPriceOutcome(v, token, resp, rate, t) ==
  IF resp.kind = "error" THEN Rejected(classifyProviderError(resp.error))
  ELSE IF resp.kind = "noEntry" THEN Rejected(classifyProviderError(ServiceError(404)))
  ELSE Resolved([token |-> NormalizedToken(v, token),
                 tokenSymbol |-> TokenSymbol(v, token),
                 priceUsd |-> resp.price,
                 priceIdr |-> priceIdrOf(resp.price, rate),
                 timestamp |-> t])

VolatilityResult(normalizedToken, volatility, recommendedSpreadFee, days, t) ==
  [token |-> normalizedToken,
   volatility |-> volatility,
   recommendedSpreadFee |-> recommendedSpreadFee,
   timeframe |-> timeframe(days),
   timestamp |-> t]

calculateVolatilityOutcome(v, token, days, resp, t) ==
  IF resp.kind = "error"
    THEN Rejected(classifyProviderError(
           IF v = "cmc" THEN resp.error ELSE fetchPriceHistoryError(resp.error)))
  ELSE IF resp.kind = "noEntry" THEN Rejected(classifyProviderError(ServiceError(404)))
  ELSE IF resp.kind = "noPrices" THEN Rejected(classifyProviderError(TypeError))
  ELSE
    LET volatility ==
          IF v = "cmc" THEN volatilityFromPercentChange(resp.percent_change_24h, days)
          ELSE calculateVolatilityFromPrices(resp.prices)
    IN  Resolved(VolatilityResult(NormalizedToken(v, token), volatility,
                                  calculateRecommendedSpreadFee(volatility), days, t))

(* updateIdrUsdRate: the value of IDR_TO_USD_RATE after the answer.  The   *)
(* CoinMarketCap variant tests response.data.data.USDT.quote.IDR and then  *)
(* assigns its .price, whatever that is; the CoinGecko variant tests the   *)
(* value response.data.tether.idr itself.                                  *)
updateIdrUsdRateOutcome(v, resp, rate) ==
  IF resp.kind = "data" THEN resp.rate
  ELSE IF resp.kind = "noPrice" /\ v = "cmc" THEN Undefined
  ELSE IF resp.kind = "oddRate" /\ (v = "cmc" \/ Truthy(resp.rate)) THEN resp.rate
  ELSE rate

(***************************************************************************)
(* Actions                                                                 *)
(***************************************************************************)
CanCall(c) == req[c].pc \in {"idle", "done"} /\ ncalls < MaxCalls

(* What the client keeps of the call that just ended: the answer of a      *)
(* successful calculateIdrxAmount, to convert it back, and the rate it was *)
(* converted at.                                                           *)
Remembered(r) ==
  IF r.pc = "done" /\ r.call.op = "calculateIdrxAmount" /\ r.result.ok
    THEN [token |-> r.call.token, amount |-> r.call.amount,
          customSpreadFee |-> r.call.customSpreadFee,
          idrxAmount |-> r.result.value.idrxAmount,
          exchangeRate |-> r.result.value.feeCalculation.exchangeRate]
    ELSE Undefined

NewRequest(c, op, token, amount, customSpreadFee, days) ==
  [IdleRequest EXCEPT
     !.call = [id |-> ncalls + 1, op |-> op, token |-> token, amount |-> amount,
               customSpreadFee |-> customSpreadFee, days |-> days],
     !.prev = Remembered(req[c])]

Started(c, r) ==
  /\ req' = [req EXCEPT ![c] = Run(r, variant, now, priceCache, volatilityCache)]
  /\ ncalls' = ncalls + 1
  /\ UNCHANGED <<variant, now, IDR_TO_USD_RATE, priceCache, volatilityCache,
                 spreadVolatilityCache, rateUpdates>>

GetTokenPrice(c, token) ==
  /\ CanCall(c)
  /\ Started(c, getTokenPriceEnter(
                  NewRequest(c, "getTokenPrice", token, Undefined, Undefined, Undefined),
                  variant, now, priceCache, token))

CalculateVolatility(c, token, days) ==
  /\ CanCall(c)
  /\ Started(c, calculateVolatilityEnter(
                  NewRequest(c, "calculateVolatility", token, Undefined, Undefined, days),
                  variant, now, volatilityCache, token, days))

CalculateFees(c, token, amount, customSpreadFee) ==
  /\ CanCall(c)
  /\ Started(c, calculateFeesEnter(
                  NewRequest(c, "calculateFees", token, amount, customSpreadFee, Undefined),
                  variant, now, priceCache, token, amount, customSpreadFee))

CalculateIdrxAmount(c, token, amount, customSpreadFee) ==
  /\ CanCall(c)
  /\ Started(c, calculateIdrxAmountEnter(
                  NewRequest(c, "calculateIdrxAmount", token, amount, customSpreadFee,
                             Undefined),
                  variant, now, priceCache, token, amount, customSpreadFee))

CalculateSourceAmount(c, token, idrxAmount, customSpreadFee) ==
  /\ CanCall(c)
  /\ Started(c, calculateSourceAmountEnter(
                  NewRequest(c, "calculateSourceAmount", token, idrxAmount,
                             customSpreadFee, Undefined),
                  variant, now, priceCache, token, idrxAmount, customSpreadFee))

(* The IDRX amounts a caller may ask to convert back: a fixed few, and the *)
(* amount its previous calculateIdrxAmount returned.                       *)
IdrxInputs(c) ==
  IdrxAmounts \cup
    (IF Remembered(req[c]) = Undefined THEN {} ELSE {Remembered(req[c]).idrxAmount})

(* getTokenPrice falling back on the entry in the cache, however old, when *)
(* the provider fails                                                      *)
PriceProviderResponds_staleOnError(c, resp) ==
  /\ req[c].pc = "wait"
  /\ Head(req[c].stack).fn = "getTokenPrice"
  /\ LET token == Head(req[c].stack).token
         fetched == getTokenPriceOutcome(variant, token, resp, IDR_TO_USD_RATE, now)
         outcome == IF ~fetched.ok /\ MapHas(priceCache, NormalizedToken(variant, token))
                      THEN Resolved(priceCache[NormalizedToken(variant, token)].data)
                      ELSE fetched
         pcache == IF fetched.ok
                     THEN MapSet(priceCache, NormalizedToken(variant, token),
                                 [data |-> outcome.value, timestamp |-> now])
                     ELSE priceCache
     IN  /\ priceCache' = pcache
         /\ req' = [req EXCEPT ![c] =
                      Run(Deliver(Pop(req[c]), outcome), variant, now, pcache,
                          volatilityCache)]
  /\ UNCHANGED <<variant, now, IDR_TO_USD_RATE, volatilityCache,
                 spreadVolatilityCache, rateUpdates, ncalls>>

(* The price provider answers the axios.get of getTokenPrice. *)
PriceProviderResponds(c, resp) ==
  /\ req[c].pc = "wait"
  /\ Head(req[c].stack).fn = "getTokenPrice"
  /\ LET token == Head(req[c].stack).token
         outcome == getTokenPriceOutcome(variant, token, resp, IDR_TO_USD_RATE, now)
         pcache == IF outcome.ok
                     THEN MapSet(priceCache, NormalizedToken(variant, token),
                                 [data |-> outcome.value, timestamp |-> now])
                     ELSE priceCache
     IN  /\ priceCache' = pcache
         /\ req' = [req EXCEPT ![c] =
                      Run(Deliver(Pop(req[c]), outcome), variant, now, pcache,
                          volatilityCache)]
  /\ UNCHANGED <<variant, now, IDR_TO_USD_RATE, volatilityCache,
                 spreadVolatilityCache, rateUpdates, ncalls>>

(* calculateVolatility deleting the entry of the key when the fetch fails *)
VolatilityProviderResponds_dropsEntryOnError(c, resp) ==
  /\ req[c].pc = "wait"
  /\ Head(req[c].stack).fn = "calculateVolatility"
  /\ LET token == Head(req[c].stack).token
         days == Head(req[c].stack).days
         key == cacheKey(NormalizedToken(variant, token), days)
         outcome == calculateVolatilityOutcome(variant, token, days, resp, now)
         vcache == IF outcome.ok
                     THEN MapSet(volatilityCache, key,
                                 [result |-> outcome.value, timestamp |-> now])
                     ELSE [x \in (DOMAIN volatilityCache) \ {key} |-> volatilityCache[x]]
     IN  /\ volatilityCache' = vcache
         /\ req' = [req EXCEPT ![c] =
                      Run(Deliver(Pop(req[c]), outcome), variant, now, priceCache,
                          vcache)]
  /\ UNCHANGED <<variant, now, IDR_TO_USD_RATE, priceCache,
                 spreadVolatilityCache, rateUpdates, ncalls>>

(* The provider answers the axios.get of calculateVolatility. *)
VolatilityProviderResponds(c, resp) ==
  /\ req[c].pc = "wait"
  /\ Head(req[c].stack).fn = "calculateVolatility"
  /\ LET token == Head(req[c].stack).token
         days == Head(req[c].stack).days
         outcome == calculateVolatilityOutcome(variant, token, days, resp, now)
         vcache == IF outcome.ok
                     THEN MapSet(volatilityCache,
                                 cacheKey(NormalizedToken(variant, token), days),
                                 [result |-> outcome.value, timestamp |-> now])
                     ELSE volatilityCache
     IN  /\ volatilityCache' = vcache
         /\ req' = [req EXCEPT ![c] =
                      Run(Deliver(Pop(req[c]), outcome), variant, now, priceCache,
                          vcache)]
  /\ UNCHANGED <<variant, now, IDR_TO_USD_RATE, priceCache,
                 spreadVolatilityCache, rateUpdates, ncalls>>

(* a refresh that also re-prices the quotes in the cache *)
RateProviderResponds_repricesCache(resp) ==
  /\ rateUpdates > 0
  /\ rateUpdates' = rateUpdates - 1
  /\ IDR_TO_USD_RATE' = updateIdrUsdRateOutcome(variant, resp, IDR_TO_USD_RATE)
  /\ priceCache' =
       [k \in DOMAIN priceCache |->
          [priceCache[k] EXCEPT
             !.data.priceIdr = Times(priceCache[k].data.priceUsd, IDR_TO_USD_RATE')]]
  /\ UNCHANGED <<variant, now, volatilityCache, spreadVolatilityCache, req, ncalls>>

(* The provider answers an updateIdrUsdRate in flight. *)
RateProviderResponds(resp) ==
  /\ rateUpdates > 0
  /\ rateUpdates' = rateUpdates - 1
  /\ IDR_TO_USD_RATE' = updateIdrUsdRateOutcome(variant, resp, IDR_TO_USD_RATE)
  /\ UNCHANGED <<variant, now, priceCache, volatilityCache, spreadVolatilityCache,
                 req, ncalls>>

(* An hour passes and the setInterval callback calls updateIdrUsdRate.     *)
TimerFires ==
  /\ now + RATE_REFRESH_INTERVAL <= MaxRateMinutes
  /\ now' = now + RATE_REFRESH_INTERVAL
  /\ rateUpdates' = rateUpdates + 1
  /\ UNCHANGED <<variant, IDR_TO_USD_RATE, priceCache, volatilityCache,
                 spreadVolatilityCache, req, ncalls>>

(* The provider answers an updateIdrUsdRate in flight, and fails only      *)
(* while another refresh is still to come: it ends up answering well.      *)
RateProviderRespondsAtLast(resp) ==
  /\ \/ resp.kind = "data"
     \/ rateUpdates > 1
     \/ now + RATE_REFRESH_INTERVAL <= MaxRateMinutes
  /\ RateProviderResponds(resp)

(* Time passes. *)
Tick(d, limit) ==
  /\ now + d <= limit
  /\ now' = now + d
  /\ UNCHANGED <<variant, IDR_TO_USD_RATE, priceCache, volatilityCache,
                 spreadVolatilityCache, req, rateUpdates, ncalls>>

(***************************************************************************)
(* SpreadFeeService                                                        *)
(***************************************************************************)
(* SpreadFeeService.normalizeTokenName: the same table as the CoinGecko    *)
(* variant of TokenFeeService.                                             *)
spreadNormalizeTokenName(token) == normalizeTokenName(token)

calculateSpreadFeeEnter(r, t, scache, token, days) ==
  IF days < 1 \/ days > 30
    THEN Deliver(r, Rejected(ServiceError(400)))
  ELSE
    LET key == cacheKey(spreadNormalizeTokenName(token), days)
    IN  IF MapHas(scache, key) /\ cacheValid(scache[key], t, SPREAD_CACHE_TTL)
          THEN Deliver(r, Resolved(scache[key].result))
          ELSE [Push(r, [fn |-> "calculateSpreadFee", token |-> token, days |-> days])
                  EXCEPT !.pc = "wait", !.volCalls = @ + 1]

calculateSpreadFeeOutcome(token, days, resp, t) ==
  IF resp.kind = "error"
    THEN Rejected(classifyProviderError(fetchPriceHistoryError(resp.error)))
  ELSE IF resp.kind = "noPrices" THEN Rejected(classifyProviderError(TypeError))
  ELSE
    LET volatility == calculateVolatilityFromPrices(resp.prices)
    IN  Resolved(VolatilityResult(spreadNormalizeTokenName(token), volatility,
                                  spreadCalculateRecommendedSpreadFee(volatility),
                                  days, t))

(* getMarketVolatility at the top of its for loop: the next token's        *)
(* calculateSpreadFee, or the record it returns.                           *)
getMarketVolatilityNext(r, t, scache) ==
  LET top == Head(r.stack)
  IN  IF top.tokens = <<>>
        THEN Deliver(Pop(r), Resolved(top.result))
        ELSE calculateSpreadFeeEnter(r, t, scache, Head(top.tokens), top.days)

(* getMarketVolatility after the await of one token: the result is kept    *)
(* under the token, a rejection is caught and logged.                      *)
getMarketVolatilityAfter(r) ==
  LET top == Head(r.stack)
  IN  ReplaceTop(r, [top EXCEPT
        !.tokens = Tail(@),
        !.result = IF r.sub.ok
                     THEN Append(@, [token |-> Head(top.tokens), result |-> r.sub.value])
                     ELSE @])

RECURSIVE volatilityValues(_)
volatilityValues(results) ==
  IF results = <<>> THEN <<>>
  ELSE <<Head(results).result.volatility>> \o volatilityValues(Tail(results))

(* calculateAverageSpreadFee after getMarketVolatility has returned *)
calculateAverageSpreadFeeAfter(volatilityResults) ==
  LET values == volatilityValues(volatilityResults)
  IN  IF Len(values) = 0 THEN Rejected(ServiceError(500))
      ELSE LET averageVolatility == RDiv(RSum(values), Num(Len(values)))
           IN  Resolved([averageVolatility |-> averageVolatility,
                         recommendedSpreadFee |->
                           spreadCalculateRecommendedSpreadFee(averageVolatility)])

(* A request of SpreadFeeService runs up to its next axios await or to its *)
(* end.                                                                    *)
RECURSIVE SpreadRun(_, _, _)
SpreadRun(r, t, scache) ==
  IF r.pc # "ret" THEN r
  ELSE IF Head(r.stack).fn = "getMarketVolatility"
    THEN SpreadRun(getMarketVolatilityNext(getMarketVolatilityAfter(r), t, scache),
                   t, scache)
  ELSE SpreadRun(Deliver(Pop(r), calculateAverageSpreadFeeAfter(r.sub.value)),
                 t, scache)

getMarketVolatilityEnter(r, t, scache, tokens, days) ==
  SpreadRun(getMarketVolatilityNext(
              Push(r, [fn |-> "getMarketVolatility", tokens |-> tokens,
                       days |-> days, result |-> <<>>]),
              t, scache),
            t, scache)

calculateAverageSpreadFeeEnter(r, t, scache, tokens, days) ==
  getMarketVolatilityEnter(Push(r, [fn |-> "calculateAverageSpreadFee"]),
                           t, scache, tokens, days)

GetMarketVolatility(c, tokens, days) ==
  /\ CanCall(c)
  /\ Started(c, getMarketVolatilityEnter(
                  NewRequest(c, "getMarketVolatility", tokens, Undefined, Undefined, days),
                  now, spreadVolatilityCache, tokens, days))

CalculateAverageSpreadFee(c, tokens, days) ==
  /\ CanCall(c)
  /\ Started(c, calculateAverageSpreadFeeEnter(
                  NewRequest(c, "calculateAverageSpreadFee", tokens, Undefined,
                             Undefined, days),
                  now, spreadVolatilityCache, tokens, days))

CalculateSpreadFee(c, token, days) ==
  /\ CanCall(c)
  /\ Started(c, calculateSpreadFeeEnter(
                  NewRequest(c, "calculateSpreadFee", token, Undefined, Undefined, days),
                  now, spreadVolatilityCache, token, days))

(* CoinGecko answers the axios.get of fetchPriceHistory. *)
SpreadProviderResponds(c, resp) ==
  /\ req[c].pc = "wait"
  /\ Head(req[c].stack).fn = "calculateSpreadFee"
  /\ LET token == Head(req[c].stack).token
         days == Head(req[c].stack).days
         outcome == calculateSpreadFeeOutcome(token, days, resp, now)
         scache == IF outcome.ok
                     THEN MapSet(spreadVolatilityCache,
                                 cacheKey(spreadNormalizeTokenName(token), days),
                                 [result |-> outcome.value, timestamp |-> now])
                     ELSE spreadVolatilityCache
     IN  /\ spreadVolatilityCache' = scache
         /\ req' = [req EXCEPT ![c] =
                      SpreadRun(Deliver(Pop(req[c]), outcome), now, scache)]
  /\ UNCHANGED <<variant, now, IDR_TO_USD_RATE, priceCache, volatilityCache,
                 rateUpdates, ncalls>>

SpreadPriceHistories ==
  PriceHistories \cup { << <<1, Num(100)>>, <<2, Num(101)>>, <<3, Num(100)>> >> }

SpreadHistoryResponses ==
  { [kind |-> "data", prices |-> h] : h \in SpreadPriceHistories }
    \cup { [kind |-> "noPrices"] }
    \cup { [kind |-> "error", error |-> e] : e \in ProviderErrors }

(* Price series for the estimator: the ones above, one sample, ten equal   *)
(* samples, and a fall.                                                    *)
EstimatorPriceHistories ==
  SpreadPriceHistories
    \cup { << <<1, Num(100)>> >>,
           [i \in 1..10 |-> <<i, Num(100)>>],
           << <<1, Num(200)>>, <<2, Num(100)>> >> }

EstimatorResponses ==
  { [kind |-> "data", prices |-> h] : h \in EstimatorPriceHistories }
    \cup { [kind |-> "noPrices"] }

EstimatorVolatilityResponses(v) ==
  IF v = "cmc" THEN QuoteResponses ELSE EstimatorResponses

(***************************************************************************)
(* MetaTransactionService                                                  *)
(***************************************************************************)
(* new ServiceError(message, statusCode), where the message tells which    *)
(* check threw                                                             *)
ServiceErrorSaying(message, statusCode) ==
  [type |-> "ServiceError", statusCode |-> statusCode, message |-> message]

(* ethers.utils.isAddress on lower-case input: 0x and forty hex digits *)
isValidAddress(address) ==
  /\ Len(address) = 42
  /\ address[1] = "0"
  /\ address[2] = "x"
  /\ \A i \in 3..42 :
       address[i] \in {"0","1","2","3","4","5","6","7","8","9","a","b","c","d","e","f"}

(* parseAmount on text without a decimal point: parseUnits takes an        *)
(* optional sign and digits, and anything else makes it throw, which       *)
(* parseAmount turns into a 400.  The BigNumber is kept in whole IDRX.     *)
parseAmount(amount) ==
  LET negative == amount # <<>> /\ Head(amount) = "-"
      digits == IF negative THEN Tail(amount) ELSE amount
  IN  IF digits # <<>> /\ \A i \in DOMAIN digits : \E k \in 1..10 : Digits[k] = digits[i]
        THEN Resolved(Num((IF negative THEN -1 ELSE 1) * DigitsValue(digits)))
        ELSE Rejected(ServiceErrorSaying("Invalid amount format", 400))

(* the catch of executeTransfer for an error that is not a ServiceError *)
executeTransferCatch(code) ==
  IF code \in {"UNPREDICTABLE_GAS_LIMIT", "CALL_EXCEPTION"}
    THEN ServiceErrorSaying("Contract error", 400)
    ELSE ServiceErrorSaying("Failed to execute transfer", 500)

(* executeTransfer up to its first await *)
executeTransferEnter(r, initialized, recipient, idrxAmount) ==
  IF ~isValidAddress(recipient)
    THEN Deliver(r, Rejected(ServiceErrorSaying("Invalid recipient address", 400)))
  ELSE
    LET amountBN == parseAmount(idrxAmount)
    IN  IF ~amountBN.ok THEN Deliver(r, amountBN)
        ELSE IF ~initialized
          THEN Deliver(r, Rejected(
                 ServiceErrorSaying("Blockchain connection not initialized", 500)))
        ELSE [Push(r, [fn |-> "executeTransfer", at |-> "minTransferAmount",
                       recipient |-> recipient, idrxAmount |-> idrxAmount,
                       amountBN |-> amountBN.value, minAmount |-> Undefined,
                       maxAmount |-> Undefined, status |-> Undefined,
                       transferId |-> Undefined])
                EXCEPT !.pc = "wait"]

(* executeTransfer sending the transaction while the contract is paused *)
executeTransferAfter_submitsWhilePaused(r, answer, newTransferId) ==
  LET top == Head(r.stack)
      fail(message, statusCode) ==
        Deliver(Pop(r), Rejected(ServiceErrorSaying(message, statusCode)))
      await(frame) == [ReplaceTop(r, frame) EXCEPT !.pc = "wait"]
  IN  IF answer.kind = "error"
        THEN Deliver(Pop(r), Rejected(executeTransferCatch(answer.code)))
      ELSE
        CASE top.at = "minTransferAmount" ->
               IF RLess(top.amountBN, answer.value)
                 THEN fail("Amount below minimum", 400)
                 ELSE await([top EXCEPT !.at = "getEffectiveMaxTransferAmount",
                                        !.minAmount = answer.value])
          [] top.at = "getEffectiveMaxTransferAmount" ->
               IF RLess(answer.value, top.amountBN)
                 THEN fail("Amount exceeds maximum", 400)
                 ELSE await([top EXCEPT !.at = "getReserveStatus",
                                        !.maxAmount = answer.value])
          [] top.at = "getReserveStatus" ->
               IF RLess(answer.reserve, top.amountBN)
                 THEN fail("Insufficient reserve", 400)
               ELSE [await([top EXCEPT !.at = "transferIDRX", !.status = answer,
                                       !.transferId = newTransferId])
                       EXCEPT !.txCalls = @ + 1]
          [] top.at = "transferIDRX" -> await([top EXCEPT !.at = "wait"])
          [] top.at = "wait" ->
               IF answer.status # 1 THEN fail("Transaction failed", 500)
               ELSE Deliver(Pop(r), Resolved(
                      [success |-> TRUE, transferId |-> top.transferId,
                       recipient |-> top.recipient, amount |-> top.idrxAmount]))

(* executeTransfer from the answer to one await to the next await or to    *)
(* its end: the three checks against what the contract reports, the one    *)
(* transferIDRX, the receipt.                                              *)
executeTransferAfter(r, answer, newTransferId) ==
  LET top == Head(r.stack)
      fail(message, statusCode) ==
        Deliver(Pop(r), Rejected(ServiceErrorSaying(message, statusCode)))
      await(frame) == [ReplaceTop(r, frame) EXCEPT !.pc = "wait"]
  IN  IF answer.kind = "error"
        THEN Deliver(Pop(r), Rejected(executeTransferCatch(answer.code)))
      ELSE
        CASE top.at = "minTransferAmount" ->
               IF RLess(top.amountBN, answer.value)
                 THEN fail("Amount below minimum", 400)
                 ELSE await([top EXCEPT !.at = "getEffectiveMaxTransferAmount",
                                        !.minAmount = answer.value])
          [] top.at = "getEffectiveMaxTransferAmount" ->
               IF RLess(answer.value, top.amountBN)
                 THEN fail("Amount exceeds maximum", 400)
                 ELSE await([top EXCEPT !.at = "getReserveStatus",
                                        !.maxAmount = answer.value])
          [] top.at = "getReserveStatus" ->
               IF ~answer.isActive
                 THEN fail("Service is currently unavailable (contract is paused)", 503)
               ELSE IF RLess(answer.reserve, top.amountBN)
                 THEN fail("Insufficient reserve", 400)
               ELSE [await([top EXCEPT !.at = "transferIDRX", !.status = answer,
                                       !.transferId = newTransferId])
                       EXCEPT !.txCalls = @ + 1]
          [] top.at = "transferIDRX" -> await([top EXCEPT !.at = "wait"])
          [] top.at = "wait" ->
               IF answer.status # 1 THEN fail("Transaction failed", 500)
               ELSE Deliver(Pop(r), Resolved(
                      [success |-> TRUE, transferId |-> top.transferId,
                       recipient |-> top.recipient, amount |-> top.idrxAmount]))

(* What the contract may answer to the call executeTransfer waits for: a   *)
(* rejection with one of the codes of ethers, a minimum of 10, a maximum   *)
(* of 1000, a reserve of 100 or 10000 of an active or paused contract, the *)
(* transaction, its receipt.                                               *)
ContractAnswers(at) ==
  { [kind |-> "error", code |-> code] :
      code \in {"CALL_EXCEPTION", "UNPREDICTABLE_GAS_LIMIT", "NETWORK_ERROR"} }
    \cup
  CASE at = "minTransferAmount" -> { [kind |-> "value", value |-> Num(10)] }
    [] at = "getEffectiveMaxTransferAmount" -> { [kind |-> "value", value |-> Num(1000)] }
    [] at = "getReserveStatus" ->
         { [kind |-> "status", isActive |-> a, reserve |-> x] :
             a \in BOOLEAN, x \in { Num(100), Num(10000) } }
    [] at = "transferIDRX" -> { [kind |-> "tx"] }
    [] at = "wait" -> { [kind |-> "receipt", status |-> x] : x \in {0, 1} }

(* generateTransferId draws the id at random *)
TransferIds == {1, 2}

Recipients ==
  { [i \in 1..42 |-> IF i = 1 THEN "0" ELSE IF i = 2 THEN "x" ELSE "a"],
    <<"0","x","1","2">>,
    <<>> }

TransferAmounts ==
  { <<"5">>, <<"5","0">>, <<"5","0","0">>, <<"5","0","0","0">>, <<"-","5">>,
    <<"a","b","c">>, <<>> }

ExecuteTransfer(c, initialized, recipient, idrxAmount) ==
  /\ CanCall(c)
  /\ req' = [req EXCEPT ![c] =
               executeTransferEnter(
                 [IdleRequest EXCEPT
                    !.call = [id |-> ncalls + 1, op |-> "executeTransfer",
                              recipient |-> recipient, idrxAmount |-> idrxAmount]],
                 initialized, recipient, idrxAmount)]
  /\ ncalls' = ncalls + 1
  /\ UNCHANGED <<variant, now, IDR_TO_USD_RATE, priceCache, volatilityCache,
                 spreadVolatilityCache, rateUpdates>>

(* The contract answers the call executeTransfer awaits. *)
ContractResponds(c, answer, newTransferId) ==
  /\ req[c].pc = "wait"
  /\ Head(req[c].stack).fn = "executeTransfer"
  /\ answer \in ContractAnswers(Head(req[c].stack).at)
  /\ req' = [req EXCEPT ![c] = executeTransferAfter(req[c], answer, newTransferId)]
  /\ UNCHANGED <<variant, now, IDR_TO_USD_RATE, priceCache, volatilityCache,
                 spreadVolatilityCache, rateUpdates, ncalls>>

(***************************************************************************)
(* Specifications                                                          *)
(***************************************************************************)
TickSteps == {CACHE_TTL - 1, CACHE_TTL}

(* Steps that bring an entry to the ages 4, 5, 14 and 15 minutes. *)
CacheTickSteps == {CACHE_TTL, SPREAD_CACHE_TTL - CACHE_TTL - 1}

(* The conversion engine: every operation of TokenFeeService, one token.   *)
Next ==
  \/ \E c \in SingleCaller, token \in EngineTokens : GetTokenPrice(c, token)
  \/ \E c \in SingleCaller, token \in EngineTokens : CalculateVolatility(c, token, 1)
  \/ \E c \in SingleCaller, token \in EngineTokens, amount \in Amounts :
       \E f \in SpreadFeesFor(amount) : CalculateFees(c, token, amount, f)
  \/ \E c \in SingleCaller, token \in EngineTokens, amount \in Amounts :
       \E f \in SpreadFeesFor(amount) : CalculateIdrxAmount(c, token, amount, f)
  \/ \E c \in SingleCaller, token \in EngineTokens :
       \E idrxAmount \in IdrxInputs(c) : \E f \in SpreadFeesFor(idrxAmount) :
         CalculateSourceAmount(c, token, idrxAmount, f)
  \/ \E c \in SingleCaller, resp \in PriceResponses : PriceProviderResponds(c, resp)
  \/ \E c \in SingleCaller : \E resp \in VolatilityResponses(variant) :
       VolatilityProviderResponds(c, resp)
  \/ \E resp \in RateResponses : RateProviderResponds(resp)
  \/ \E d \in TickSteps : Tick(d, MaxMinutes)

Spec == Init /\ [][Next]_vars

(* The cached lookups of both services: two tokens for the price cache,    *)
(* valid and invalid windows for the volatility caches.                    *)
NextCache ==
  \/ \E c \in SingleCaller, token \in InputTokens : GetTokenPrice(c, token)
  \/ \E c \in SingleCaller, token \in EngineTokens, days \in DaysInputs :
       CalculateVolatility(c, token, days)
  \/ \E c \in SingleCaller, token \in EngineTokens, days \in DaysInputs :
       CalculateSpreadFee(c, token, days)
  \/ \E c \in SingleCaller, resp \in PriceResponses : PriceProviderResponds(c, resp)
  \/ \E c \in SingleCaller : \E resp \in VolatilityResponses(variant) :
       VolatilityProviderResponds(c, resp)
  \/ \E c \in SingleCaller, resp \in SpreadHistoryResponses : SpreadProviderResponds(c, resp)
  \/ \E d \in CacheTickSteps : Tick(d, MaxCacheMinutes)

SpecCache == Init /\ [][NextCache]_vars

(* Every operation that takes a day window, with windows inside and       *)
(* outside [1, 30]: the two volatility lookups and the two operations of   *)
(* SpreadFeeService over a list of tokens.                                 *)
MarketTickSteps == {SPREAD_CACHE_TTL}

NextMarket ==
  \/ \E c \in SingleCaller, token \in EngineTokens, days \in DaysInputs :
       CalculateVolatility(c, token, days)
  \/ \E c \in SingleCaller, token \in EngineTokens, days \in DaysInputs :
       CalculateSpreadFee(c, token, days)
  \/ \E c \in SingleCaller, tokens \in MarketTokenLists, days \in DaysInputs :
       GetMarketVolatility(c, tokens, days)
  \/ \E c \in SingleCaller, tokens \in MarketTokenLists, days \in DaysInputs :
       CalculateAverageSpreadFee(c, tokens, days)
  \/ \E c \in SingleCaller : \E resp \in VolatilityResponses(variant) :
       VolatilityProviderResponds(c, resp)
  \/ \E c \in SingleCaller, resp \in SpreadHistoryResponses : SpreadProviderResponds(c, resp)
  \/ \E d \in MarketTickSteps : Tick(d, MaxCacheMinutes)

SpecMarket == Init /\ [][NextMarket]_vars

(* The statistical estimator at work: the two lookups that run it on the   *)
(* series the provider returns.                                            *)
NextEstimator ==
  \/ \E c \in SingleCaller, token \in EngineTokens : CalculateVolatility(c, token, 1)
  \/ \E c \in SingleCaller, token \in EngineTokens : CalculateSpreadFee(c, token, 1)
  \/ \E c \in SingleCaller : \E resp \in EstimatorVolatilityResponses(variant) :
       VolatilityProviderResponds(c, resp)
  \/ \E c \in SingleCaller, resp \in EstimatorResponses : SpreadProviderResponds(c, resp)
  \/ \E d \in MarketTickSteps : Tick(d, MaxCacheMinutes)

SpecEstimator == Init /\ [][NextEstimator]_vars

(* The token resolver at work: price lookups for every spelling.           *)
NextResolver ==
  \/ \E c \in SingleCaller, token \in ResolverTokens : GetTokenPrice(c, token)
  \/ \E c \in SingleCaller, resp \in PriceResponses : PriceProviderResponds(c, resp)
  \/ \E d \in TickSteps : Tick(d, MaxMinutes)

SpecResolver == Init /\ [][NextResolver]_vars

(* The volatility caches under several tokens and windows.                 *)
NextKeys ==
  \/ \E c \in SingleCaller, token \in KeyTokens, days \in WindowInputs :
       CalculateVolatility(c, token, days)
  \/ \E c \in SingleCaller, token \in InputTokens, days \in WindowInputs :
       CalculateSpreadFee(c, token, days)
  \/ \E c \in SingleCaller : \E resp \in VolatilityResponses(variant) :
       VolatilityProviderResponds(c, resp)
  \/ \E c \in SingleCaller, resp \in SpreadHistoryResponses : SpreadProviderResponds(c, resp)
  \/ Tick(CACHE_TTL, MaxMinutes)

SpecKeys == Init /\ [][NextKeys]_vars

(* The answers a contract may give at any of the awaits. *)
AllContractAnswers ==
  UNION { ContractAnswers(at) :
            at \in {"minTransferAmount", "getEffectiveMaxTransferAmount",
                    "getReserveStatus", "transferIDRX", "wait"} }

(* Transfers: executeTransfer with good and bad recipients and amounts,    *)
(* the contract answering each await in every way.                         *)
NextTransfer ==
  \/ \E c \in SingleCaller, initialized \in BOOLEAN, recipient \in Recipients,
        idrxAmount \in TransferAmounts :
       ExecuteTransfer(c, initialized, recipient, idrxAmount)
  \/ \E c \in SingleCaller, answer \in AllContractAnswers, newTransferId \in TransferIds :
       ContractResponds(c, answer, newTransferId)

SpecTransfer == Init /\ [][NextTransfer]_vars

(* Two callers at once on one token: price and volatility lookups by both, *)
(* the conversion back from IDRX by the first, with the provider answering *)
(* in any order.                                                           *)
ConcTickSteps == {CACHE_TTL}

NextConc ==
  \/ \E c \in Callers, token \in EngineTokens : GetTokenPrice(c, token)
  \/ \E c \in Callers, token \in EngineTokens : CalculateVolatility(c, token, 1)
  \/ \E c \in SingleCaller, token \in EngineTokens, f \in CustomSpreadFees :
       CalculateSourceAmount(c, token, Num(27900000), f)
  \/ \E c \in Callers, resp \in PriceResponses : PriceProviderResponds(c, resp)
  \/ \E c \in Callers : \E resp \in VolatilityResponses(variant) :
       VolatilityProviderResponds(c, resp)
  \/ \E d \in ConcTickSteps : Tick(d, MaxConcMinutes)

SpecConc == Init /\ [][NextConc]_vars

(* The reference-rate refresher next to price lookups: the refresh of the  *)
(* constructor, one more at every hour, the provider answering each in any *)
(* way.                                                                    *)
NextRate ==
  \/ \E c \in SingleCaller, token \in EngineTokens : GetTokenPrice(c, token)
  \/ \E c \in SingleCaller, resp \in PriceResponses : PriceProviderResponds(c, resp)
  \/ \E resp \in RefresherResponses : RateProviderResponds(resp)
  \/ TimerFires

SpecRate == Init /\ [][NextRate]_vars

(* The same with a provider that ends up answering well.  The timer of     *)
(* setInterval fires whenever it is due, and axios.get settles within its  *)
(* timeout, so both are weakly fair.                                       *)
NextRateLive ==
  \/ \E c \in SingleCaller, token \in EngineTokens : GetTokenPrice(c, token)
  \/ \E c \in SingleCaller, resp \in PriceResponses : PriceProviderResponds(c, resp)
  \/ \E resp \in RefresherResponses : RateProviderRespondsAtLast(resp)
  \/ TimerFires

SpecRateLive ==
  /\ Init
  /\ [][NextRateLive]_vars
  /\ WF_vars(TimerFires)
  /\ WF_vars(\E resp \in RefresherResponses : RateProviderRespondsAtLast(resp))

(***************************************************************************)
(* Properties                                                              *)
(***************************************************************************)

(* C1: a call of getTokenPrice, calculateVolatility or calculateSpreadFee  *)
(* that finds an entry for its key with now - storedAt < TTL returns       *)
(* exactly the cached value, makes no provider call and leaves the cache   *)
(* as it is.                                                               *)
C1_FreshEntryIsReturnedWithoutProviderCall ==
  [][\A c \in Callers :
       LET r == req[c]
           s == req'[c]
       IN  (s.call # r.call) =>
             /\ (/\ s.call.op = "getTokenPrice"
                 /\ NormalizedToken(variant, s.call.token) \in DOMAIN priceCache
                 /\ now - priceCache[NormalizedToken(variant, s.call.token)].timestamp
                      < CACHE_TTL)
                  => /\ s.pc = "done"
                     /\ s.result =
                          Resolved(priceCache[NormalizedToken(variant, s.call.token)].data)
                     /\ s.priceCalls = 0 /\ s.volCalls = 0
                     /\ priceCache' = priceCache
             /\ (/\ s.call.op = "calculateVolatility"
                 /\ cacheKey(NormalizedToken(variant, s.call.token), s.call.days)
                      \in DOMAIN volatilityCache
                 /\ now - volatilityCache[cacheKey(NormalizedToken(variant, s.call.token),
                                                   s.call.days)].timestamp < CACHE_TTL)
                  => /\ s.pc = "done"
                     /\ s.result =
                          Resolved(volatilityCache[
                            cacheKey(NormalizedToken(variant, s.call.token),
                                     s.call.days)].result)
                     /\ s.priceCalls = 0 /\ s.volCalls = 0
                     /\ volatilityCache' = volatilityCache
             /\ (/\ s.call.op = "calculateSpreadFee"
                 /\ cacheKey(spreadNormalizeTokenName(s.call.token), s.call.days)
                      \in DOMAIN spreadVolatilityCache
                 /\ now - spreadVolatilityCache[
                            cacheKey(spreadNormalizeTokenName(s.call.token),
                                     s.call.days)].timestamp < SPREAD_CACHE_TTL)
                  => /\ s.pc = "done"
                     /\ s.result =
                          Resolved(spreadVolatilityCache[
                            cacheKey(spreadNormalizeTokenName(s.call.token),
                                     s.call.days)].result)
                     /\ s.priceCalls = 0 /\ s.volCalls = 0
                     /\ spreadVolatilityCache' = spreadVolatilityCache
    ]_vars

(* A calculateSpreadFee call was answered from an entry aged TTL - 1. *)
C1_Witness ==
  \E c \in Callers :
    /\ req[c].pc = "done"
    /\ req[c].call.op = "calculateSpreadFee"
    /\ req[c].result.ok
    /\ req[c].volCalls = 0
    /\ now - req[c].result.value.timestamp = SPREAD_CACHE_TTL - 1

(* C2: a getTokenPrice or calculateVolatility call that finds no entry for *)
(* its key, or one with now - storedAt >= TTL, makes exactly one provider  *)
(* call; the answer ends the call without a further provider call, and a   *)
(* successful answer is stored under the key with storedAt = now and is    *)
(* the value returned.                                                     *)
C2_MissMakesOneProviderCallAndStores ==
  [][\A c \in Callers :
       LET r == req[c]
           s == req'[c]
           pkey == NormalizedToken(variant, s.call.token)
           vkey == cacheKey(NormalizedToken(variant, s.call.token), s.call.days)
       IN  /\ (/\ s.call # r.call
               /\ s.call.op = "getTokenPrice"
               /\ \/ pkey \notin DOMAIN priceCache
                  \/ now - priceCache[pkey].timestamp >= CACHE_TTL)
                => (s.pc = "wait" /\ s.priceCalls = 1 /\ s.volCalls = 0)
           /\ (/\ s.call # r.call
               /\ s.call.op = "calculateVolatility"
               /\ s.call.days \in 1..30
               /\ \/ vkey \notin DOMAIN volatilityCache
                  \/ now - volatilityCache[vkey].timestamp >= CACHE_TTL)
                => (s.pc = "wait" /\ s.volCalls = 1 /\ s.priceCalls = 0)
           /\ (r.pc = "wait" /\ s # r /\ r.call.op = "getTokenPrice")
                => /\ s.pc = "done"
                   /\ s.priceCalls = 1 /\ s.volCalls = 0
                   /\ s.result.ok =>
                        priceCache'[pkey] = [data |-> s.result.value, timestamp |-> now]
           /\ (r.pc = "wait" /\ s # r /\ r.call.op = "calculateVolatility")
                => /\ s.pc = "done"
                   /\ s.volCalls = 1 /\ s.priceCalls = 0
                   /\ s.result.ok =>
                        volatilityCache'[vkey] =
                          [result |-> s.result.value, timestamp |-> now]
    ]_vars

(* A second getTokenPrice call refetched after the TTL and its quote is    *)
(* the entry now stored.                                                   *)
C2_Witness ==
  \E c \in Callers :
    /\ req[c].pc = "done"
    /\ req[c].call.op = "getTokenPrice"
    /\ req[c].call.id = 2
    /\ req[c].priceCalls = 1
    /\ req[c].result.ok
    /\ now >= CACHE_TTL
    /\ priceCache[NormalizedToken(variant, req[c].call.token)] =
         [data |-> req[c].result.value, timestamp |-> now]

(* C3: the quote a getTokenPrice call returns is younger than the TTL at   *)
(* the moment it is returned; a call that found a stale entry and whose    *)
(* provider call fails ends in an error and leaves the entry as it was.    *)
C3_NoStaleQuoteIsServed ==
  [][\A c \in Callers :
       LET r == req[c]
           s == req'[c]
           pkey == NormalizedToken(variant, s.call.token)
       IN  /\ (s # r /\ s.pc = "done" /\ s.call.op = "getTokenPrice" /\ s.result.ok)
                => now' - s.result.value.timestamp < CACHE_TTL
           /\ \A resp \in PriceResponses :
                (/\ resp.kind # "data"
                 /\ r.pc = "wait"
                 /\ r.call.op = "getTokenPrice"
                 /\ pkey \in DOMAIN priceCache
                 /\ PriceProviderResponds(c, resp))
                  => /\ s.pc = "done"
                     /\ ~s.result.ok
                     /\ s.result.error.type = "ServiceError"
                     /\ priceCache' = priceCache
    ]_vars

(* A getTokenPrice call ended in an error while a stale entry for its key  *)
(* was in the cache.                                                       *)
C3_Witness ==
  \E c \in Callers :
    /\ req[c].pc = "done"
    /\ req[c].call.op = "getTokenPrice"
    /\ ~req[c].result.ok
    /\ req[c].priceCalls = 1
    /\ NormalizedToken(variant, req[c].call.token) \in DOMAIN priceCache
    /\ now - priceCache[NormalizedToken(variant, req[c].call.token)].timestamp
         >= CACHE_TTL

(* C4: a failed getTokenPrice ends in exactly one of three errors: status   *)
(* 404 when the provider's answer has no entry for the token, 429 when the *)
(* provider answers HTTP 429, 500 for every other provider or network      *)
(* failure; errorHandler answers with that same status.                    *)
C4_PriceLookupFailureKinds ==
  [][\A c \in Callers : \A resp \in PriceResponses :
       (/\ resp.kind # "data"
        /\ req[c].pc = "wait"
        /\ req[c].call.op = "getTokenPrice"
        /\ PriceProviderResponds(c, resp))
         => LET expected ==
                  IF resp.kind = "noEntry" THEN 404
                  ELSE IF resp.error.type = "AxiosError"
                          /\ resp.error.response # Undefined
                          /\ resp.error.response.status = 429 THEN 429
                  ELSE 500
                s == req'[c]
            IN  /\ s.pc = "done"
                /\ ~s.result.ok
                /\ s.result.error = ServiceError(expected)
                /\ errorHandler(s.result.error) = expected
    ]_vars

(* A getTokenPrice call ended with status 429. *)
C4_Witness ==
  \E c \in Callers :
    /\ req[c].pc = "done"
    /\ req[c].call.op = "getTokenPrice"
    /\ ~req[c].result.ok
    /\ errorHandler(req[c].result.error) = 429

(* C5: calculateFees, calculateIdrxAmount and calculateSourceAmount called  *)
(* with an amount that is not greater than 0 end at once with status 400,  *)
(* before any provider call, and leave the price cache and the volatility  *)
(* cache as they are.                                                      *)
C5_NonPositiveAmountIsRejected ==
  [][\A c \in Callers :
       LET r == req[c]
           s == req'[c]
       IN  (/\ s.call # r.call
            /\ s.call.op \in {"calculateFees", "calculateIdrxAmount",
                              "calculateSourceAmount"}
            /\ ~RLess(Num(0), s.call.amount))
             => /\ s.pc = "done"
                /\ s.result = Rejected(ServiceError(400))
                /\ errorHandler(s.result.error) = 400
                /\ s.priceCalls = 0 /\ s.volCalls = 0
                /\ UNCHANGED <<priceCache, volatilityCache>>
    ]_vars

(* calculateFees(token, 0) was rejected although a quote for the token was *)
(* in the cache.                                                           *)
C5_Witness ==
  \E c \in Callers :
    /\ req[c].pc = "done"
    /\ req[c].call.op = "calculateFees"
    /\ req[c].call.amount = Num(0)
    /\ req[c].result = Rejected(ServiceError(400))
    /\ NormalizedToken(variant, req[c].call.token) \in DOMAIN priceCache

(* C6: calculateVolatility and calculateSpreadFee called with days outside *)
(* 1..30 end at once with status 400, make no provider call and leave both *)
(* volatility caches as they are, whatever the caches hold.                *)
C6_WindowOutOfRangeIsRejected ==
  [][\A c \in Callers :
       LET r == req[c]
           s == req'[c]
       IN  (/\ s.call # r.call
            /\ s.call.op \in {"calculateVolatility", "calculateSpreadFee"}
            /\ s.call.days \notin 1..30)
             => /\ s.pc = "done"
                /\ s.result = Rejected(ServiceError(400))
                /\ errorHandler(s.result.error) = 400
                /\ s.priceCalls = 0 /\ s.volCalls = 0
                /\ UNCHANGED <<priceCache, volatilityCache, spreadVolatilityCache>>
    ]_vars

(* calculateVolatility(token, 31) was rejected while a fresh entry for the *)
(* token's 1-day window was in the cache.                                  *)
C6_Witness ==
  \E c \in Callers :
    /\ req[c].pc = "done"
    /\ req[c].call.op = "calculateVolatility"
    /\ req[c].call.days = 31
    /\ req[c].result = Rejected(ServiceError(400))
    /\ cacheKey(NormalizedToken(variant, req[c].call.token), 1)
         \in DOMAIN volatilityCache
    /\ now - volatilityCache[cacheKey(NormalizedToken(variant, req[c].call.token),
                                      1)].timestamp < CACHE_TTL

(* C7: a calculateSourceAmount call that converts back the idrxAmount of   *)
(* the caller's previous calculateIdrxAmount, for the same token and with  *)
(* the same spread-fee override, returns the amount that call was given.   *)
(* Stated here for the case most favourable to the law: both calls         *)
(* converted at the same exchange rate.                                    *)
C7_RoundTripReturnsTheAmount ==
  \A c \in Callers :
    LET r == req[c]
    IN  (/\ r.pc = "done"
         /\ r.call.op = "calculateSourceAmount"
         /\ r.result.ok
         /\ r.prev # Undefined
         /\ r.call.token = r.prev.token
         /\ r.call.customSpreadFee # Undefined
         /\ r.call.customSpreadFee = r.prev.customSpreadFee
         /\ r.call.amount = r.prev.idrxAmount
         /\ r.result.value.feeCalculation.exchangeRate = r.prev.exchangeRate)
          => r.result.value.sourceAmount = r.prev.amount

(* C8: every breakdown returned by calculateFees, calculateIdrxAmount or   *)
(* calculateSourceAmount has amountAfterFees = amountBeforeFees -          *)
(* totalFeeAmount.                                                         *)
C8_EveryBreakdownDeductsFees ==
  \A c \in Callers :
    LET r == req[c]
        breakdown == IF r.call.op = "calculateFees" THEN r.result.value
                     ELSE r.result.value.feeCalculation
    IN  (/\ r.pc = "done"
         /\ r.call.op \in {"calculateFees", "calculateIdrxAmount",
                           "calculateSourceAmount"}
         /\ r.result.ok)
          => breakdown.amountAfterFees =
               RSub(breakdown.amountBeforeFees, breakdown.totalFeeAmount)

C10_VolatilityFailureFallsBackToDefault ==
  [][\A c \in Callers :
       LET r == req[c]
           s == req'[c]
       IN  /\ \A resp \in VolatilityResponses(variant) :
                (/\ resp.kind # "data"
                 /\ r.pc = "wait"
                 /\ r.call.customSpreadFee = Undefined
                 /\ VolatilityProviderResponds(c, resp))
                  => /\ r.call.op = "calculateFees"
                          => /\ s.pc = "done"
                             /\ s.result.ok
                             /\ s.result.value.spreadFeePercentage = Rat(2, 1000)
                     /\ r.call.op = "calculateSourceAmount"
                          => \/ /\ s.pc = "done"
                                /\ s.result.ok
                                /\ s.result.value.feeCalculation.spreadFeePercentage
                                     = Rat(2, 1000)
                             \/ /\ s.pc = "wait"
                                /\ Head(s.stack).fn = "getTokenPrice"
                                /\ s.stack[Len(s.stack)].spreadFeePercentage
                                     = Rat(2, 1000)
           /\ \A resp \in PriceResponses :
                (/\ resp.kind = "data"
                 /\ r.pc = "wait"
                 /\ r.call.op = "calculateSourceAmount"
                 /\ r.stack[Len(r.stack)].at = "fees"
                 /\ PriceProviderResponds(c, resp))
                  => /\ s.pc = "done"
                     /\ s.result.ok
                     /\ s.result.value.feeCalculation.spreadFeePercentage
                          = r.stack[Len(r.stack)].spreadFeePercentage
    ]_vars

(* calculateSourceAmount without an override made one volatility call,     *)
(* found no volatility result to use, and returned a breakdown at 0.002.   *)
C10_Witness ==
  \E c \in Callers :
    /\ req[c].pc = "done"
    /\ req[c].call.op = "calculateSourceAmount"
    /\ req[c].call.customSpreadFee = Undefined
    /\ req[c].volCalls = 1
    /\ volatilityCache = EmptyMap
    /\ req[c].result.ok
    /\ req[c].result.value.feeCalculation.spreadFeePercentage = Rat(2, 1000)

(* C11: calculateFees, calculateIdrxAmount and calculateSourceAmount given  *)
(* a spread-fee override, 0 included, make no volatility lookup, leave the *)
(* volatility cache as it is and return a breakdown whose                  *)
(* spreadFeePercentage is the override; without an override the fee of a   *)
(* returned breakdown is the recommended fee of the token's 1-day          *)
(* volatility result, or the default.                                      *)
C11_OverrideReplacesVolatilityLookup ==
  [][\A c \in Callers :
       LET r == req[c]
           s == req'[c]
           breakdown == IF s.call.op = "calculateFees" THEN s.result.value
                        ELSE s.result.value.feeCalculation
           key == cacheKey(NormalizedToken(variant, s.call.token), 1)
       IN  (/\ s # r
            /\ s.call # Undefined
            /\ s.call.op \in {"calculateFees", "calculateIdrxAmount",
                              "calculateSourceAmount"})
             => /\ s.call.customSpreadFee # Undefined
                  => /\ s.volCalls = 0
                     /\ \A i \in DOMAIN s.stack : s.stack[i].fn # "calculateVolatility"
                     /\ volatilityCache' = volatilityCache
                     /\ (s.pc = "done" /\ s.result.ok)
                          => breakdown.spreadFeePercentage = s.call.customSpreadFee
                /\ (s.call.customSpreadFee = Undefined /\ s.pc = "done" /\ s.result.ok)
                  => \/ breakdown.spreadFeePercentage = DEFAULT_SPREAD_FEE_PERCENTAGE
                     \/ /\ key \in DOMAIN volatilityCache'
                        /\ breakdown.spreadFeePercentage =
                             volatilityCache'[key].result.recommendedSpreadFee
    ]_vars

(* An operation given the override 0 returned a breakdown at 0 although a  *)
(* fresh 1-day volatility result with another fee was in the cache.        *)
C11_Witness ==
  \E c \in Callers :
    LET r == req[c]
        key == cacheKey(NormalizedToken(variant, r.call.token), 1)
    IN  /\ r.pc = "done"
        /\ r.call.op = "calculateSourceAmount"
        /\ r.call.customSpreadFee = Num(0)
        /\ r.result.ok
        /\ r.result.value.feeCalculation.spreadFeePercentage = Num(0)
        /\ r.volCalls = 0
        /\ key \in DOMAIN volatilityCache
        /\ now - volatilityCache[key].timestamp < CACHE_TTL
        /\ volatilityCache[key].result.recommendedSpreadFee # Num(0)

(* C12: the breakdown calculateSourceAmount returns describes the          *)
(* sourceAmount it returns: amountBeforeFees is that sourceAmount, its     *)
(* spreadFeePercentage and totalFeePercentage are the fractions sourceAmount *)
(* was derived with (sourceAmount * rate * (1 - totalFeePercentage) =      *)
(* idrxAmount, rate being the priceIdr of the quote the call read first),  *)
(* and once the fee is fixed no volatility lookup follows, whatever        *)
(* happens to the volatility cache meanwhile.                              *)
C12_SourceAmountBreakdownUsesPinnedFee ==
  [][\A c \in Callers :
       LET r == req[c]
           s == req'[c]
           frame == r.stack[Len(r.stack)]
           fc == s.result.value.feeCalculation
           rate == IF r.pc = "wait" /\ frame.at \in {"vol", "fees"}
                     THEN frame.priceData.priceIdr
                     ELSE fc.exchangeRate
       IN  (/\ s # r
            /\ s.call # Undefined
            /\ s.call.op = "calculateSourceAmount")
             => /\ s.volCalls <= 1
                /\ (r.pc = "wait" /\ frame.at = "fees")
                     => /\ s.volCalls = r.volCalls
                        /\ \A i \in DOMAIN s.stack :
                             s.stack[i].fn # "calculateVolatility"
                        /\ (s.pc = "done" /\ s.result.ok)
                             => /\ fc.spreadFeePercentage = frame.spreadFeePercentage
                                /\ s.result.value.sourceAmount = frame.sourceAmount
                /\ (s.pc = "done" /\ s.result.ok)
                     => /\ fc.amountBeforeFees = s.result.value.sourceAmount
                        /\ fc.totalFeePercentage =
                             RAdd(ADMIN_FEE_PERCENTAGE, fc.spreadFeePercentage)
                        /\ RMul(s.result.value.sourceAmount,
                                RMul(rate, RSub(Num(1), fc.totalFeePercentage)))
                             = s.call.amount
    ]_vars

(* calculateSourceAmount without an override returned a breakdown at the   *)
(* fee of a volatility result that another caller's lookup has replaced in *)
(* the cache since.                                                        *)
C12_Witness ==
  \E c \in Callers :
    LET r == req[c]
        key == cacheKey(NormalizedToken(variant, r.call.token), 1)
    IN  /\ r.pc = "done"
        /\ r.call.op = "calculateSourceAmount"
        /\ r.call.customSpreadFee = Undefined
        /\ r.result.ok
        /\ r.volCalls = 1
        /\ r.result.value.feeCalculation.spreadFeePercentage
             # DEFAULT_SPREAD_FEE_PERCENTAGE
        /\ key \in DOMAIN volatilityCache
        /\ volatilityCache[key].result.recommendedSpreadFee
             # r.result.value.feeCalculation.spreadFeePercentage

(* C13: calculateIdrxAmount returns idrxAmount = amountAfterFees *         *)
(* exchangeRate of the breakdown it returns with it, and that exchangeRate *)
(* is the priceIdr of the quote the breakdown was computed from, the one   *)
(* in the price cache.                                                     *)
C13_IdrxAmountIsAmountAfterFeesTimesRate ==
  \A c \in SingleCaller :
    LET r == req[c]
        fc == r.result.value.feeCalculation
        key == NormalizedToken(variant, r.call.token)
    IN  (/\ r.pc = "done"
         /\ r.call.op = "calculateIdrxAmount"
         /\ r.result.ok)
          => /\ r.result.value.idrxAmount = RMul(fc.amountAfterFees, fc.exchangeRate)
             /\ fc.exchangeRate = fc.priceIdr
             /\ key \in DOMAIN priceCache
             /\ fc.priceIdr = priceCache[key].data.priceIdr
             /\ fc.priceUsd = priceCache[key].data.priceUsd

(* calculateIdrxAmount returned an amount on which the fees show, at a     *)
(* rate refreshed from the provider.                                       *)
C13_Witness ==
  \E c \in SingleCaller :
    LET r == req[c]
        fc == r.result.value.feeCalculation
    IN  /\ r.pc = "done"
        /\ r.call.op = "calculateIdrxAmount"
        /\ r.result.ok
        /\ r.result.value.idrxAmount # RMul(fc.amountBeforeFees, fc.exchangeRate)
        /\ fc.exchangeRate = RMul(fc.priceUsd, Num(16000))

(* C14: every breakdown calculateFees returns has adminFeeAmount = amount * *)
(* 0.005, spreadFeeAmount = amount * spreadFeePercentage and               *)
(* totalFeeAmount = adminFeeAmount + spreadFeeAmount; and calculateFees of *)
(* amount 1 with the override 0.002, on a quote of 1800 USD taken at the   *)
(* rate 15500, returns 0.005, 0.002, 0.007, amountAfterFees 0.993 and      *)
(* exchangeRate 27,900,000.                                                *)
C14_FeeAmountsOfTheScenario ==
  \A c \in SingleCaller :
    LET r == req[c]
        fc == r.result.value
    IN  (/\ r.pc = "done"
         /\ r.call.op = "calculateFees"
         /\ r.result.ok)
          => /\ fc.adminFeeAmount = RMul(r.call.amount, Rat(5, 1000))
             /\ fc.spreadFeeAmount = RMul(r.call.amount, fc.spreadFeePercentage)
             /\ fc.totalFeeAmount = RAdd(fc.adminFeeAmount, fc.spreadFeeAmount)
             /\ (/\ r.call.amount = Num(1)
                 /\ r.call.customSpreadFee = Rat(2, 1000)
                 /\ fc.priceUsd = Num(1800)
                 /\ fc.priceIdr = RMul(Num(1800), Num(15500)))
                  => /\ fc.adminFeeAmount = Rat(5, 1000)
                     /\ fc.spreadFeeAmount = Rat(2, 1000)
                     /\ fc.totalFeeAmount = Rat(7, 1000)
                     /\ fc.amountAfterFees = Rat(993, 1000)
                     /\ fc.exchangeRate = Num(27900000)

(* C15: a reference-rate refresh that fails (provider error, timeout, or a *)
(* response without the expected rate) leaves the reference rate at its    *)
(* previous value, raises no error to any caller, and does not stop later  *)
(* scheduled refreshes: the timer fires at every hour whatever the earlier *)
(* refreshes did.                                                          *)
C15_FailedRefreshLeavesTheRate ==
  /\ [][\A resp \in RefresherResponses :
          (resp.kind # "data" /\ RateProviderResponds(resp))
            => /\ IDR_TO_USD_RATE' = IDR_TO_USD_RATE
               /\ req' = req]_vars
  /\ [](now + RATE_REFRESH_INTERVAL <= MaxRateMinutes => ENABLED TimerFires)

(* C16: the reference rate holds the default 15500 from construction until *)
(* the first refresh succeeds (it changes in no other step); a refresh is  *)
(* attempted at construction and again at every hourly timer tick whatever *)
(* the earlier ones did; and with a fair timer and a provider that ends up *)
(* answering well, the rate eventually equals a provider-reported value.   *)
C16_DefaultUntilARefreshSucceeds ==
  /\ IDR_TO_USD_RATE = Num(DEFAULT_IDR_TO_USD_RATE) /\ rateUpdates = 1
  /\ [][IDR_TO_USD_RATE' # IDR_TO_USD_RATE
          => \E resp \in RefresherResponses :
               /\ resp.kind = "data"
               /\ RateProviderResponds(resp)
               /\ IDR_TO_USD_RATE' = resp.rate]_vars
  /\ [][TimerFires => rateUpdates' > rateUpdates]_vars
  /\ [](now + RATE_REFRESH_INTERVAL <= MaxRateMinutes => ENABLED TimerFires)
  /\ <>(IDR_TO_USD_RATE \in Rates)

(* C17: request operations never wait for the reference-rate refresher.  A *)
(* getTokenPrice can start, and one waiting for its provider can complete, *)
(* whether or not a refresh is in flight; when it completes on the         *)
(* provider's quote its priceIdr is the quote times the rate current at    *)
(* that moment; and the rate is replaced in one step of the refresher that *)
(* touches no request, so no reader sees an intermediate value.            *)
C17_LookupsNeverWaitForTheRefresher ==
  /\ [](\A c \in SingleCaller :
          /\ CanCall(c)
               => ENABLED (\E token \in EngineTokens : GetTokenPrice(c, token))
          /\ req[c].pc = "wait"
               => ENABLED (\E resp \in PriceResponses : PriceProviderResponds(c, resp)))
  /\ [][\A c \in SingleCaller, resp \in PriceResponses :
          (resp.kind = "data" /\ PriceProviderResponds(c, resp))
            => /\ req'[c].pc = "done"
               /\ req'[c].result.ok
               /\ req'[c].result.value.priceIdr = Times(resp.price, IDR_TO_USD_RATE)
               /\ IDR_TO_USD_RATE' = IDR_TO_USD_RATE]_vars
  /\ [][IDR_TO_USD_RATE' # IDR_TO_USD_RATE
          => /\ req' = req
             /\ \E resp \in RefresherResponses : RateProviderResponds(resp)]_vars

(* a lookup completed with the refreshed rate while the next refresh is in *)
(* flight                                                                  *)
C17_Witness ==
  \E c \in SingleCaller :
    /\ rateUpdates > 0
    /\ IDR_TO_USD_RATE \in Rates
    /\ req[c].pc = "done"
    /\ req[c].call.op = "getTokenPrice"
    /\ req[c].result.ok
    /\ req[c].result.value.timestamp = now
    /\ req[c].result.value.priceIdr = RMul(req[c].result.value.priceUsd, IDR_TO_USD_RATE)

(* C18: when several getTokenPrice (or calculateVolatility) calls for the  *)
(* same missing or stale key are in flight together, each caller makes at  *)
(* most one provider call, each successful caller receives the value built *)
(* from its own provider response, and every write leaves in the cache one *)
(* complete value, that of the caller writing it, with a timestamp that is *)
(* not below the one it replaces.                                          *)
C18_ConcurrentMissesWriteWholeEntries ==
  /\ [](\A c \in Callers :
          req[c].pc # "idle"
            => /\ req[c].call.op = "getTokenPrice"
                    => req[c].priceCalls <= 1 /\ req[c].volCalls = 0
               /\ req[c].call.op = "calculateVolatility"
                    => req[c].volCalls <= 1 /\ req[c].priceCalls = 0)
  /\ [](/\ \A k \in DOMAIN priceCache :
             /\ priceCache[k].data.token = k
             /\ priceCache[k].data.timestamp = priceCache[k].timestamp
        /\ \A k \in DOMAIN volatilityCache :
             volatilityCache[k].result.timestamp = volatilityCache[k].timestamp)
  /\ [][\A c \in Callers, resp \in PriceResponses :
          (PriceProviderResponds(c, resp) /\ req[c].call.op = "getTokenPrice")
            => LET key == NormalizedToken(variant, req[c].call.token)
               IN  /\ req'[c].pc = "done"
                   /\ req'[c].result =
                        getTokenPriceOutcome(variant, req[c].call.token, resp,
                                             IDR_TO_USD_RATE, now)
                   /\ resp.kind = "data"
                        => /\ req'[c].result.ok
                           /\ req'[c].result.value.priceUsd = resp.price
                           /\ priceCache'[key] =
                                [data |-> req'[c].result.value, timestamp |-> now]
                           /\ MapHas(priceCache, key)
                                => priceCache'[key].timestamp >= priceCache[key].timestamp
                   /\ resp.kind # "data" => priceCache' = priceCache]_vars
  /\ [][\A c \in Callers : \A resp \in VolatilityResponses(variant) :
          (VolatilityProviderResponds(c, resp) /\ req[c].call.op = "calculateVolatility")
            => LET key == cacheKey(NormalizedToken(variant, req[c].call.token),
                                   req[c].call.days)
               IN  /\ req'[c].pc = "done"
                   /\ req'[c].result =
                        calculateVolatilityOutcome(variant, req[c].call.token,
                                                   req[c].call.days, resp, now)
                   /\ req'[c].result.ok
                        => /\ volatilityCache'[key] =
                                [result |-> req'[c].result.value, timestamp |-> now]
                           /\ MapHas(volatilityCache, key)
                                => volatilityCache'[key].timestamp
                                     >= volatilityCache[key].timestamp
                   /\ ~req'[c].result.ok => volatilityCache' = volatilityCache]_vars

(* two lookups of one missing key were in flight together, each made its   *)
(* own provider call and got its own quote, and the cache holds one of the *)
(* two values                                                              *)
C18_Witness ==
  /\ \A c \in Callers :
       /\ req[c].pc = "done"
       /\ req[c].call.op = "getTokenPrice"
       /\ req[c].priceCalls = 1
       /\ req[c].result.ok
       /\ req[c].result.value.timestamp = now
  /\ req[1].result.value.priceUsd # req[2].result.value.priceUsd
  /\ req[1].call.token = req[2].call.token
  /\ \E c \in Callers :
       priceCache[NormalizedToken(variant, req[c].call.token)]
         = [data |-> req[c].result.value, timestamp |-> now]
  /\ now > 0

(* C19: when the price lookup inside calculateFees, calculateIdrxAmount or *)
(* calculateSourceAmount fails with kind k (404, 429 or 500), the          *)
(* operation fails with the same kind k and returns no result: the error   *)
(* is not re-wrapped into another status and no breakdown is produced.     *)
C19_PriceFailureReachesTheCallerUnchanged ==
  [][\A c \in SingleCaller, resp \in PriceResponses :
       ( /\ PriceProviderResponds(c, resp)
         /\ resp.kind # "data"
         /\ req[c].call.op \in {"calculateFees", "calculateIdrxAmount",
                                "calculateSourceAmount"} )
         => LET lookup == getTokenPriceOutcome(variant, Head(req[c].stack).token,
                                               resp, IDR_TO_USD_RATE, now)
            IN  /\ ~lookup.ok
                /\ lookup.error.statusCode \in {404, 429, 500}
                /\ req'[c].pc = "done"
                /\ req'[c].result = Rejected(ServiceError(lookup.error.statusCode))]_vars

(* calculateSourceAmount rejected with the 429 of its price lookup *)
C19_Witness ==
  \E c \in SingleCaller :
    /\ req[c].pc = "done"
    /\ req[c].call.op = "calculateSourceAmount"
    /\ req[c].priceCalls >= 1
    /\ req[c].result = Rejected(ServiceError(429))

(* C20: InvalidArgument is always surfaced to the caller: calculateVolatility, *)
(* calculateSpreadFee, getMarketVolatility and calculateAverageSpreadFee,  *)
(* called with a day window outside [1, 30], end in an error of status 400 *)
(* and never in a successful result or in an error of another kind.        *)
C20_InvalidWindowIsAlwaysSurfaced ==
  [][\A c \in SingleCaller, days \in DaysInputs :
       ( /\ days < 1 \/ days > 30
         /\ \/ \E token \in EngineTokens : CalculateVolatility(c, token, days)
            \/ \E token \in EngineTokens : CalculateSpreadFee(c, token, days)
            \/ \E tokens \in MarketTokenLists : GetMarketVolatility(c, tokens, days)
            \/ \E tokens \in MarketTokenLists : CalculateAverageSpreadFee(c, tokens, days) )
         => /\ req'[c].pc = "done"
            /\ req'[c].result = Rejected(ServiceError(400))]_vars

(* C21: the statistical estimator returns dailyVolatility 0 for a price    *)
(* series with fewer than 2 samples and a non-negative value for every     *)
(* series of positive prices; for a series of constant price (ten equal    *)
(* samples among them) it returns 0 and the recommended spread fee is the  *)
(* base fee of the service.                                                *)
C21_EstimatorIsZeroOnShortAndConstantSeries ==
  [][\A c \in SingleCaller, resp \in EstimatorResponses :
       ( /\ resp.kind = "data"
         /\ req[c].pc = "wait"
         /\ \/ SpreadProviderResponds(c, resp)
            \/ variant = "gecko" /\ VolatilityProviderResponds(c, resp) )
         => LET h == resp.prices
                constant == \A i, j \in DOMAIN h : h[i][2] = h[j][2]
                positive == \A i \in DOMAIN h : RLess(Num(0), h[i][2])
                baseFee == IF req[c].call.op = "calculateSpreadFee"
                             THEN Rat(1, 1000) ELSE Rat(2, 1000)
                estimate == req'[c].result.value
            IN  /\ req'[c].result.ok
                /\ Len(h) < 2 => estimate.volatility = Num(0)
                /\ positive => RLeq(Num(0), estimate.volatility)
                /\ (constant /\ positive)
                     => /\ estimate.volatility = Num(0)
                        /\ estimate.recommendedSpreadFee = baseFee]_vars

(* both services have returned an estimate of zero volatility with their   *)
(* base fee                                                                *)
C21_Witness ==
  \E c \in SingleCaller :
    /\ req[c].pc = "done"
    /\ req[c].call.op = "calculateSpreadFee"
    /\ req[c].volCalls = 1
    /\ req[c].result.ok
    /\ req[c].result.value.volatility = Num(0)
    /\ req[c].result.value.recommendedSpreadFee = Rat(1, 1000)
    /\ variant = "gecko"
    /\ \E k \in DOMAIN volatilityCache :
         /\ volatilityCache[k].result.volatility = Num(0)
         /\ volatilityCache[k].result.recommendedSpreadFee = Rat(2, 1000)

(* C22: the token resolver never fails and maps every input string to      *)
(* (canonicalTokenId, displaySymbol) by lower-casing and trimming it and   *)
(* looking it up in the alias table: eth gives ethereum/ETH and btc gives  *)
(* bitcoin/BTC; an input with no alias gives its lower-cased trimmed form  *)
(* as id and its upper-cased form as symbol; resolving a canonical id      *)
(* gives the same id.                                                      *)
C22_ResolverMapsAliasesAndDefaults ==
  [][\A c \in SingleCaller, resp \in PriceResponses :
       ( /\ resp.kind = "data"
         /\ req[c].pc = "wait"
         /\ PriceProviderResponds(c, resp) )
         => LET token == req[c].call.token
                normalized == trim(toLowerCase(token))
                quote == req'[c].result.value
            IN  /\ req'[c].result.ok
                /\ normalized = <<"e","t","h">>
                     => /\ quote.token = <<"e","t","h","e","r","e","u","m">>
                        /\ quote.tokenSymbol = <<"E","T","H">>
                /\ normalized = <<"b","t","c">>
                     => /\ quote.token = <<"b","i","t","c","o","i","n">>
                        /\ quote.tokenSymbol = <<"B","T","C">>
                /\ normalized = <<"x","r","p">>
                     => /\ quote.token = normalized
                        /\ quote.tokenSymbol = <<"X","R","P">>
                /\ NormalizedToken(variant, quote.token) = quote.token]_vars

(* C23: a cached TokenQuote is never mutated: from the moment it is stored *)
(* until a later successful fetch for its key replaces the entry, all its  *)
(* fields stay the same; a reference-rate refresh changes only the rate    *)
(* and leaves every price-cache and volatility-cache entry unchanged.      *)
C23_CachedQuoteIsNeverMutated ==
  [][/\ \A k \in DOMAIN priceCache :
          /\ k \in DOMAIN priceCache'
          /\ priceCache'[k] # priceCache[k]
               => \E c \in SingleCaller, resp \in PriceResponses :
                    /\ resp.kind = "data"
                    /\ req[c].pc = "wait"
                    /\ PriceProviderResponds(c, resp)
                    /\ NormalizedToken(variant, Head(req[c].stack).token) = k
                    /\ priceCache'[k].data.priceUsd = resp.price
                    /\ priceCache'[k].timestamp = now
     /\ \A k \in DOMAIN volatilityCache :
          /\ k \in DOMAIN volatilityCache'
          /\ volatilityCache'[k] # volatilityCache[k]
               => \E c \in SingleCaller : \E resp \in VolatilityResponses(variant) :
                    /\ req[c].pc = "wait"
                    /\ VolatilityProviderResponds(c, resp)
                    /\ volatilityCache'[k].timestamp = now
     /\ (rateUpdates' < rateUpdates \/ IDR_TO_USD_RATE' # IDR_TO_USD_RATE)
          => /\ priceCache' = priceCache
             /\ volatilityCache' = volatilityCache
             /\ req' = req]_vars

(* a refresh has changed the rate after a quote and an estimate were       *)
(* stored, and both entries are still what was stored                      *)
C23_Witness ==
  /\ IDR_TO_USD_RATE \in Rates
  /\ rateUpdates = 0
  /\ \E k \in DOMAIN priceCache :
       /\ priceCache[k].data.timestamp = priceCache[k].timestamp
       /\ priceCache[k].data.priceIdr =
            RMul(priceCache[k].data.priceUsd, Num(DEFAULT_IDR_TO_USD_RATE))
  /\ volatilityCache # EmptyMap

(* C24: the volatility cache is keyed by (canonical tokenId, windowDays):  *)
(* a cached estimate is returned only to a request with the same canonical *)
(* token and the same window, a request for the same token with another    *)
(* window and no fresh entry of its own triggers a provider call, and the  *)
(* token and timeframe of every returned estimate match the request.       *)
C24_VolatilityCacheIsKeyedByTokenAndWindow ==
  /\ [](\A c \in SingleCaller :
          (req[c].pc = "done" /\ req[c].result.ok)
            => LET id == IF req[c].call.op = "calculateSpreadFee"
                           THEN spreadNormalizeTokenName(req[c].call.token)
                           ELSE NormalizedToken(variant, req[c].call.token)
               IN  /\ req[c].result.value.token = id
                   /\ req[c].result.value.timeframe = timeframe(req[c].call.days))
  /\ [][\A c \in SingleCaller, token \in KeyTokens, days \in WindowInputs :
          /\ (CanCall(c) /\ CalculateVolatility(c, token, days))
               => LET key == NormalizedToken(variant, token) \o <<"-">> \o NumberToString(days)
                      fresh == /\ MapHas(volatilityCache, key)
                               /\ now - volatilityCache[key].timestamp < CACHE_TTL
                  IN  IF fresh
                        THEN /\ req'[c].pc = "done"
                             /\ req'[c].volCalls = 0
                             /\ req'[c].result = Resolved(volatilityCache[key].result)
                        ELSE req'[c].pc = "wait" /\ req'[c].volCalls = 1
          /\ (CanCall(c) /\ token \in InputTokens /\ CalculateSpreadFee(c, token, days))
               => LET key == spreadNormalizeTokenName(token) \o <<"-">> \o NumberToString(days)
                      fresh == /\ MapHas(spreadVolatilityCache, key)
                               /\ now - spreadVolatilityCache[key].timestamp < SPREAD_CACHE_TTL
                  IN  IF fresh
                        THEN /\ req'[c].pc = "done"
                             /\ req'[c].volCalls = 0
                             /\ req'[c].result = Resolved(spreadVolatilityCache[key].result)
                        ELSE req'[c].pc = "wait" /\ req'[c].volCalls = 1]_vars

(* with a fresh estimate of the token for one window in the cache, the     *)
(* request for the other window called the provider and got its own        *)
C24_Witness ==
  \E c \in SingleCaller :
    /\ req[c].pc = "done"
    /\ req[c].call.op = "calculateVolatility"
    /\ req[c].call.days = 2
    /\ req[c].volCalls = 1
    /\ req[c].result.ok
    /\ LET id == NormalizedToken(variant, req[c].call.token)
       IN  /\ MapHas(volatilityCache, cacheKey(id, 1))
           /\ MapHas(volatilityCache, cacheKey(id, 2))
           /\ volatilityCache[cacheKey(id, 1)].timestamp = now
           /\ volatilityCache[cacheKey(id, 1)].result.timeframe = timeframe(1)
           /\ volatilityCache[cacheKey(id, 2)].result = req[c].result.value

(* C25: a getTokenPrice, calculateVolatility or calculateSpreadFee call     *)
(* that ends in an error leaves the caches exactly as they were: the entry *)
(* for the key (fresh, stale or absent) is neither overwritten, removed    *)
(* nor re-timestamped, so the next call for that key contacts the provider *)
(* again unless a fresh entry already existed.                             *)
C25_FailedLookupLeavesTheCaches ==
  [][\A c \in SingleCaller :
       /\ ( /\ req'[c].pc = "done"
            /\ ~req'[c].result.ok
            /\ req'[c] # req[c] )
            => /\ priceCache' = priceCache
               /\ volatilityCache' = volatilityCache
               /\ spreadVolatilityCache' = spreadVolatilityCache
       /\ ( /\ req[c].pc = "done"
            /\ ~req[c].result.ok
            /\ req[c].priceCalls + req[c].volCalls > 0
            /\ req'[c] # req[c]
            /\ req'[c].call.op = req[c].call.op
            /\ req'[c].call.token = req[c].call.token
            /\ req'[c].call.days = req[c].call.days )
            => LET op == req[c].call.op
                   token == req[c].call.token
                   days == req[c].call.days
                   fresh ==
                     IF op = "getTokenPrice"
                       THEN LET k == NormalizedToken(variant, token)
                            IN  /\ MapHas(priceCache, k)
                                /\ now - priceCache[k].timestamp < CACHE_TTL
                     ELSE IF op = "calculateVolatility"
                       THEN LET k == cacheKey(NormalizedToken(variant, token), days)
                            IN  /\ MapHas(volatilityCache, k)
                                /\ now - volatilityCache[k].timestamp < CACHE_TTL
                     ELSE LET k == cacheKey(spreadNormalizeTokenName(token), days)
                          IN  /\ MapHas(spreadVolatilityCache, k)
                              /\ now - spreadVolatilityCache[k].timestamp < SPREAD_CACHE_TTL
               IN  IF fresh THEN req'[c].pc = "done" /\ req'[c].result.ok
                   ELSE /\ req'[c].pc = "wait"
                        /\ req'[c].priceCalls + req'[c].volCalls = 1]_vars

(* a lookup has failed at the provider while a stale entry of its key was  *)
(* in the cache, and the entry is still there as it was stored             *)
C25_Witness ==
  \E c \in SingleCaller :
    /\ req[c].pc = "done"
    /\ req[c].call.op = "calculateVolatility"
    /\ req[c].volCalls = 1
    /\ ~req[c].result.ok
    /\ LET k == cacheKey(NormalizedToken(variant, req[c].call.token), req[c].call.days)
       IN  /\ MapHas(volatilityCache, k)
           /\ now - volatilityCache[k].timestamp >= CACHE_TTL
           /\ volatilityCache[k].result.timestamp = volatilityCache[k].timestamp

(* C26: in every reachable state the reference rate is a positive number,  *)
(* either the default 15500 or the rate of a provider response that passed *)
(* the check of the refresh; no sequence of provider responses, those with *)
(* a missing, zero or non-numeric rate field included, makes it undefined, *)
(* zero or negative.                                                       *)
C26_ReferenceRateIsAlwaysPositive ==
  /\ IsNumber(IDR_TO_USD_RATE)
  /\ RLess(Num(0), IDR_TO_USD_RATE)
  /\ IDR_TO_USD_RATE \in {Num(DEFAULT_IDR_TO_USD_RATE)} \cup Rates

(* C27: every quote in the price cache satisfies priceIdr = priceUsd * r,  *)
(* r being the reference rate at the moment the provider response was      *)
(* processed and the entry stored; a later rate refresh does not re-price  *)
(* it, so a quote served from the cache may carry another rate than the    *)
(* current one.                                                            *)
C27_CachedQuoteKeepsTheRateOfItsFetch ==
  /\ [][\A c \in SingleCaller, resp \in PriceResponses :
          ( /\ resp.kind = "data"
            /\ req[c].pc = "wait"
            /\ PriceProviderResponds(c, resp) )
            => LET k == NormalizedToken(variant, Head(req[c].stack).token)
               IN  /\ priceCache'[k].data.priceUsd = resp.price
                   /\ priceCache'[k].data.priceIdr = Times(resp.price, IDR_TO_USD_RATE)
                   /\ priceCache'[k].timestamp = now]_vars
  /\ [][IDR_TO_USD_RATE' # IDR_TO_USD_RATE => priceCache' = priceCache]_vars
  /\ [][\A c \in SingleCaller, token \in EngineTokens :
          ( /\ CanCall(c)
            /\ GetTokenPrice(c, token)
            /\ req'[c].pc = "done" )
            => req'[c].result =
                 Resolved(priceCache[NormalizedToken(variant, token)].data)]_vars

(* a quote served from the cache carries the default rate after a refresh  *)
(* has changed the reference rate                                          *)
C27_Witness ==
  \E c \in SingleCaller :
    /\ req[c].pc = "done"
    /\ req[c].call.op = "getTokenPrice"
    /\ req[c].priceCalls = 0
    /\ req[c].result.ok
    /\ IDR_TO_USD_RATE \in Rates
    /\ req[c].result.value.priceIdr =
         RMul(req[c].result.value.priceUsd, Num(DEFAULT_IDR_TO_USD_RATE))
    /\ req[c].result.value.priceIdr # RMul(req[c].result.value.priceUsd, IDR_TO_USD_RATE)

(* C28: a successful calculateSourceAmount(token, idrxAmount, f) returns a  *)
(* breakdown that reproduces the request: feeCalculation.exchangeRate is   *)
(* the rate sourceAmount was derived with, that is sourceAmount =          *)
(* idrxAmount / (exchangeRate * (1 - totalFeePercentage)), and             *)
(* feeCalculation.amountAfterFees * feeCalculation.exchangeRate =          *)
(* idrxAmount, also when the price cache entry expired and was fetched     *)
(* again at another price before the nested calculateFees read it.         *)
C28_BreakdownReproducesTheRequest ==
  \A c \in Callers :
    LET r == req[c]
        fc == r.result.value.feeCalculation
    IN  (/\ r.pc = "done"
         /\ r.call.op = "calculateSourceAmount"
         /\ r.result.ok)
          => /\ r.result.value.sourceAmount =
                  RDiv(r.call.amount,
                       RMul(fc.exchangeRate, RSub(Num(1), fc.totalFeePercentage)))
             /\ fc.amountAfterFees = RDiv(r.call.amount, fc.exchangeRate)

(* the operations that need a quote and, without an override, a spread fee *)
FeeOperations == {"calculateFees", "calculateIdrxAmount", "calculateSourceAmount"}

(* The call is inside the calculateFees that calculateSourceAmount calls   *)
(* with the fee it has fixed; that calculateFees needs no volatility.      *)
InNestedCalculateFees(r) ==
  \E i \in DOMAIN r.stack :
    r.stack[i].fn = "calculateSourceAmount" /\ r.stack[i].at = "fees"

(* C29: in calculateFees and calculateSourceAmount the volatility lookup    *)
(* starts only after the price lookup has succeeded.  A volatility         *)
(* provider call starts only from a function that holds the quote its own  *)
(* price lookup returned, the quote the price cache holds at that moment,  *)
(* and no function waits for its own quote with a volatility call of the   *)
(* call behind it (the calculateFees that calculateSourceAmount calls at   *)
(* the end looks the price up for itself and needs no volatility);         *)
(* when the price provider fails the call ends as a failure in that step,  *)
(* without a volatility provider call and with the volatility cache as it  *)
(* was.                                                                    *)
C29_VolatilityOnlyAfterThePrice ==
  [][\A c \in SingleCaller :
       LET r == req[c]
           s == req'[c]
       IN  /\ (s.call # Undefined /\ s.call.op \in FeeOperations /\ s.volCalls > r.volCalls)
                => /\ s.volCalls = r.volCalls + 1
                   /\ s.pc = "wait"
                   /\ s.stack[1].fn = "calculateVolatility"
                   /\ s.stack[2].fn \in {"calculateFees", "calculateSourceAmount"}
                   /\ s.stack[2].at = "vol"
                   /\ s.stack[2].priceData # Undefined
                   /\ s.stack[2].priceData =
                        priceCache'[NormalizedToken(variant, s.call.token)].data
                   /\ volatilityCache' = volatilityCache
           /\ (/\ s.call # Undefined /\ s.call.op \in FeeOperations
               /\ s.pc = "wait" /\ s.stack[1].fn = "getTokenPrice"
               /\ ~InNestedCalculateFees(s))
                => s.volCalls = 0
           /\ \A resp \in PriceResponses :
                (/\ resp.kind # "data"
                 /\ r.pc = "wait"
                 /\ r.call.op \in FeeOperations
                 /\ PriceProviderResponds(c, resp))
                  => /\ s.pc = "done"
                     /\ ~s.result.ok
                     /\ s.volCalls = r.volCalls
                     /\ volatilityCache' = volatilityCache
                     /\ ~InNestedCalculateFees(r) => s.volCalls = 0
    ]_vars

(* calculateSourceAmount without an override has failed on its price       *)
(* lookup: one price provider call, no volatility provider call, nothing   *)
(* in the volatility cache                                                 *)
C29_Witness ==
  \E c \in SingleCaller :
    /\ req[c].pc = "done"
    /\ req[c].call.op = "calculateSourceAmount"
    /\ req[c].call.customSpreadFee = Undefined
    /\ ~req[c].result.ok
    /\ req[c].priceCalls = 1
    /\ req[c].volCalls = 0
    /\ volatilityCache = << >>

(* C30: executeTransfer submits transferIDRX at most once per call, and    *)
(* only after every check of the call has passed, in this order: the       *)
(* recipient is a valid address, the amount parses, the amount is at least *)
(* the minimum the contract reported, at most the effective maximum it     *)
(* reported, the contract is active, the amount is at most the reserve.  A *)
(* check is made only after the checks before it have passed; when one     *)
(* fails the call ends in that step as a failure with status 400 (503 when *)
(* the contract is paused) and no transaction has been submitted.          *)
C30_TransferSubmittedOnceAfterAllChecks ==
  [][\A c \in SingleCaller :
       LET r == req[c]
           s == req'[c]
           top == Head(r.stack)
           next == Head(s.stack)
           failsWith(statusCode) ==
             /\ s.pc = "done"
             /\ ~s.result.ok
             /\ s.result.error.statusCode = statusCode
             /\ s.txCalls = 0
       IN  /\ s.txCalls <= 1
           /\ s.txCalls > r.txCalls
                => /\ r.pc = "wait" /\ top.at = "getReserveStatus"
                   /\ s.pc = "wait" /\ next.at = "transferIDRX"
                   /\ isValidAddress(s.call.recipient)
                   /\ parseAmount(s.call.idrxAmount) = Resolved(next.amountBN)
                   /\ top.minAmount # Undefined
                   /\ RLeq(top.minAmount, next.amountBN)
                   /\ top.maxAmount # Undefined
                   /\ RLeq(next.amountBN, top.maxAmount)
                   /\ next.status.isActive
                   /\ RLeq(next.amountBN, next.status.reserve)
           /\ (s.pc = "wait" /\ next.fn = "executeTransfer")
                => /\ isValidAddress(s.call.recipient)
                   /\ parseAmount(s.call.idrxAmount) = Resolved(next.amountBN)
                   /\ next.at # "minTransferAmount"
                        => RLeq(next.minAmount, next.amountBN)
                   /\ next.at \notin {"minTransferAmount", "getEffectiveMaxTransferAmount"}
                        => RLeq(next.amountBN, next.maxAmount)
                   /\ next.at \in {"transferIDRX", "wait"} <=> s.txCalls = 1
           /\ \A initialized \in BOOLEAN, recipient \in Recipients,
                 idrxAmount \in TransferAmounts :
                ExecuteTransfer(c, initialized, recipient, idrxAmount)
                  => /\ ~isValidAddress(recipient)
                          => /\ failsWith(400)
                             /\ s.result.error.message = "Invalid recipient address"
                     /\ (isValidAddress(recipient) /\ ~parseAmount(idrxAmount).ok)
                          => /\ failsWith(400)
                             /\ s.result.error.message = "Invalid amount format"
           /\ \A answer \in AllContractAnswers, newTransferId \in TransferIds :
                (ContractResponds(c, answer, newTransferId) /\ answer.kind # "error")
                  => /\ (top.at = "minTransferAmount" /\ RLess(top.amountBN, answer.value))
                          => failsWith(400)
                     /\ (/\ top.at = "getEffectiveMaxTransferAmount"
                         /\ RLess(answer.value, top.amountBN))
                          => failsWith(400)
                     /\ (top.at = "getReserveStatus" /\ ~answer.isActive)
                          => failsWith(503)
                     /\ (/\ top.at = "getReserveStatus" /\ answer.isActive
                         /\ RLess(answer.reserve, top.amountBN))
                          => failsWith(400)
    ]_vars

(* a transfer has gone through: one transaction, submitted after the       *)
(* contract reported itself active with enough reserve                     *)
C30_Witness ==
  \E c \in SingleCaller :
    /\ req[c].pc = "done"
    /\ req[c].call.op = "executeTransfer"
    /\ req[c].result.ok
    /\ req[c].result.value.success
    /\ req[c].txCalls = 1

====
